---- MODULE Spec2Model ----
(***************************************************************************)
(* Model of the header-aware rate limiter of pred_mkts                     *)
(* (src/src/pred_mkts/core/rate_limiter.py): the time provider, the token  *)
(* bucket, the concurrency semaphores and RateLimiter.acquire /            *)
(* acquire_async / handle_response_headers.                                *)
(*                                                                         *)
(* Python floats are modelled as exact rationals <<numerator, denominator>>*)
(* in lowest terms with a positive denominator; float('inf') is Inf.       *)
(***************************************************************************)
EXTENDS Integers, Sequences, FiniteSets, TLC

\* ------------------------------------------------------------- bounds
\* ExchangeConfig of the model run (the test fixture uses 10 / 20 / 4).
SteadyRate == 5
Burst == 1
MaxConcurrency == 1
\* Callers of acquire (threads) and of acquire_async (tasks).
NumSync == 2
NumAsync == 2
\* The clock is read on a grid of tenths of a second, up to MaxTicks tenths.
MaxTicks == 2
\* Largest single FakeTimeProvider.advance, in tenths.
MaxAdvance == 2
\* Largest n handed to consume(n) / time_until_tokens(n) in direct bucket calls.
MaxConsume == 3
\* Direct bucket calls: the clock is set back, or the rate replaced, only
\* while the level is at least -TokenFloor (keeps the level range finite).
TokenFloor == 2
\* Calls of acquire / handle_response_headers in one run.
MaxRequests == 2
MaxResponses == 1
\* Calls of handle_response_headers made outside any acquire scope.
MaxOutside == 2
\* Sleeps of one acquire while it spins on an empty bucket.
MaxSleeps == 1
\* Threads recording telemetry events, and the events each of them records.
NumRecorders == 2
MaxEvents == 2
\* Threads that run acquire, use the limiter inside the scope and leave.
NumLockers == 2

\* ---------------------------------------------------------- rationals
Abs(x) == IF x < 0 THEN -x ELSE x

RECURSIVE GCD(_, _)
GCD(a, b) == IF b = 0 THEN a ELSE GCD(b, a % b)

\* n/d in lowest terms, d # 0.
Rat(n, d) ==
  LET g == GCD(Abs(n), Abs(d))
      s == IF d < 0 THEN -1 ELSE 1
  IN  <<(s * n) \div g, (s * d) \div g>>

Zero == <<0, 1>>
Inf == <<1, 0>>
RInt(n) == <<n, 1>>
RAdd(a, b) == Rat(a[1] * b[2] + b[1] * a[2], a[2] * b[2])
RSub(a, b) == Rat(a[1] * b[2] - b[1] * a[2], a[2] * b[2])
RMul(a, b) == Rat(a[1] * b[1], a[2] * b[2])
\* b # 0
RDiv(a, b) == Rat(a[1] * b[2], a[2] * b[1])
RLt(a, b) == a[1] * b[2] < b[1] * a[2]
RLe(a, b) == a[1] * b[2] <= b[1] * a[2]
RMin(a, b) == IF RLe(a, b) THEN a ELSE b
RMax(a, b) == IF RLe(a, b) THEN b ELSE a
RAbs(a) == <<Abs(a[1]), a[2]>>
\* A tenth of a second: the sleep increment of acquire and the clock grid.
Tenth == <<1, 10>>
Ticks(k) == Rat(k, 10)

\* -------------------------------------------------------------- state
VARIABLES
  clock,       \* TimeProvider: the current time (FakeTimeProvider._current_time)
  buckets,     \* RateLimiter._buckets: bucket key -> TokenBucket
  created,     \* history: the clock reading when the bucket was constructed
  result,      \* the last public call's name, argument and return value
  sem,         \* RateLimiter._semaphore: free permits (threading.Semaphore)
  asem,        \* RateLimiter._async_semaphore: free permits (asyncio.Semaphore)
  stats,       \* RateLimiter._stats
  pc,          \* each caller's position in acquire / acquire_async
  wait_time,   \* acquire's local wait_time, per caller
  sleep_time,  \* acquire's local sleep_time, per caller
  started,     \* history: acquire calls made so far
  responses,   \* history: handle_response_headers calls made so far
  granted,     \* history: acquires granted so far (successful consume(1) calls)
  burstClean,  \* history: the Burst-th grant was made with the clock not advanced
  grantNo,     \* history: per caller, the number of its current grant
  sawEmpty,    \* history: per caller, a consume of its acquire failed while
               \* the clock had not moved since the bucket was created
  window,      \* history: the remaining and reset the last response with a
               \* reset ahead of the clock declared, and the grants before it
  req,         \* the caller's retry loop for one request: its position, its
               \* attempt counter and the status of the last response
  memo,        \* a should_retry call and its result, kept by the caller
  snapshot,    \* the RateLimiterStats object the last get_stats returned
  events,      \* the telemetry events acquire has recorded, in order
  guards,      \* the RateLimitGuard objects acquire has yielded, in order
  pair,        \* two further limiters on the same clock, one used through
               \* acquire only and one through acquire_async only
  racing,      \* one TokenBucket used statement by statement by threads that
               \* consume from it and a thread that adapts its rate
  recorder,    \* a TelemetryRecorder(collect_stats=True) and the threads
               \* that call record on it
  locking      \* the locks and the gate of one limiter, and the threads that
               \* take them: who holds what, and what each thread does next

vars == <<clock, buckets, created, result, sem, asem, stats, pc, wait_time,
          sleep_time, started, responses, granted, burstClean, grantNo,
          sawEmpty, window, req, memo, snapshot, events, guards, pair,
          racing, recorder, locking>>

\* What acquire hands over: to the telemetry recorder and to its caller.
handoverVars == <<events, guards>>

\* The state kept outside the limiter.
\* The state of the components exercised on their own.
auxVars == <<racing, recorder, locking>>

callerVars == <<req, memo, snapshot, handoverVars, pair, auxVars>>

limiterVars == <<sem, asem, stats, pc, wait_time, sleep_time, started,
                 responses, granted, burstClean, grantNo, sawEmpty, window,
                 callerVars>>

\* ExchangeConfig.host, the only bucket key _get_bucket_key returns.
Host == "api.test.com"

Callers == 1..(NumSync + NumAsync)
IsSync(c) == c <= NumSync

NoResult == [op |-> "none", arg |-> 0, val |-> "none"]
\* No response has declared a remaining budget with a reset ahead.
NoWindow == [remaining |-> -1, reset |-> Zero, grants |-> 0]
\* get_stats has not been called.
NoSnapshot ==
  [taken |-> FALSE, live |-> FALSE,
   val |-> [requests_total |-> 0, requests_throttled |-> 0,
            requests_429 |-> 0, requests_5xx |-> 0,
            total_wait_time |-> <<0, 1>>, adaptive_adjustments |-> 0]]
\* No request is being retried.
NoRequest == [pc |-> "idle", attempt |-> 0, status |-> 0]

\* The callers of each limiter of the pair.
PairCallers == {1, 2}

\* A limiter of the pair as constructed: no bucket, every permit free.
NewLimiter ==
  [buckets |-> <<>>,
   permits |-> MaxConcurrency,
   stats |-> [requests_total |-> 0, requests_throttled |-> 0,
              requests_429 |-> 0, requests_5xx |-> 0,
              total_wait_time |-> Zero, adaptive_adjustments |-> 0],
   pc |-> [c \in PairCallers |-> "idle"],
   wait_time |-> [c \in PairCallers |-> Zero],
   sleep_time |-> [c \in PairCallers |-> Zero],
   guards |-> <<>>,
   started |-> 0]

\* -------------------------------------------------------- TokenBucket
\* TokenBucket.__init__
NewBucket(rate, capacity, now, initial_tokens) ==
  [rate |-> rate, capacity |-> capacity, tokens |-> initial_tokens,
   last_refill |-> now]

\* Mutant of _refill: the min(capacity, ...) cap is dropped.
RefillUncapped(b, now) ==
  [b EXCEPT !.tokens = RAdd(@, RMul(RSub(now, b.last_refill), b.rate)),
            !.last_refill = now]

\* TokenBucket._refill
Refill(b, now) ==
  LET elapsed == RSub(now, b.last_refill)
      new_tokens == RMul(elapsed, b.rate)
  IN  [b EXCEPT !.tokens = RMin(RInt(b.capacity), RAdd(@, new_tokens)),
                !.last_refill = now]

\* Mutant of consume: tokens >= n is tested as tokens > n.
ConsumeStrict(b, n, now) ==
  LET r == Refill(b, now)
  IN  IF RLt(RInt(n), r.tokens)
        THEN [bucket |-> [r EXCEPT !.tokens = RSub(@, RInt(n))], ok |-> TRUE]
        ELSE [bucket |-> r, ok |-> FALSE]

\* Mutant of consume: a successful consume does not take the tokens.
ConsumeNoSubtract(b, n, now) ==
  LET r == Refill(b, now)
  IN  [bucket |-> r, ok |-> RLe(RInt(n), r.tokens)]

\* TokenBucket.consume: the bucket after the call and the value returned.
Consume(b, n, now) ==
  LET r == Refill(b, now)
  IN  IF RLe(RInt(n), r.tokens)
        THEN [bucket |-> [r EXCEPT !.tokens = RSub(@, RInt(n))], ok |-> TRUE]
        ELSE [bucket |-> r, ok |-> FALSE]

\* TokenBucket.peek
Peek(b, now) == Refill(b, now)

\* Mutant of time_until_tokens: the rate > 0 guard is dropped.
TimeUntilUnguarded(b, n, now) ==
  LET r == Refill(b, now)
  IN  IF RLe(RInt(n), r.tokens) THEN Zero
      ELSE IF r.rate = Zero THEN Zero
      ELSE RDiv(RSub(RInt(n), r.tokens), r.rate)

\* TokenBucket.time_until_tokens: the value returned (the bucket is refilled).
TimeUntilTokens(b, n, now) ==
  LET r == Refill(b, now)
  IN  IF RLe(RInt(n), r.tokens) THEN Zero
      ELSE IF RLt(Zero, r.rate)
        THEN RDiv(RSub(RInt(n), r.tokens), r.rate)
        ELSE Inf

\* ------------------------------------------------------- TimeProvider
\* FakeTimeProvider.advance (or the system clock moving on), in tenths.
Advance(k) ==
  /\ RLe(RAdd(clock, Ticks(k)), Ticks(MaxTicks))
  /\ clock' = RAdd(clock, Ticks(k))
  /\ UNCHANGED <<buckets, created, result, limiterVars>>

\* FakeTimeProvider.set to an earlier time.
ClockSet(k) ==
  /\ RLt(Ticks(k), clock)
  /\ Host \in DOMAIN buckets
  /\ RLe(RInt(-TokenFloor), buckets[Host].tokens)
  /\ clock' = Ticks(k)
  /\ UNCHANGED <<buckets, created, result, limiterVars>>

\* ------------------------------------- direct calls on one TokenBucket
\* bucket.consume(n)
BucketConsume(n) ==
  LET r == Consume(buckets[Host], n, clock)
  IN  /\ buckets' = [buckets EXCEPT ![Host] = r.bucket]
      /\ result' = [op |-> "consume", arg |-> n, val |-> r.ok]
      /\ UNCHANGED <<clock, created, limiterVars>>

\* bucket.peek()
BucketPeek ==
  LET r == Peek(buckets[Host], clock)
  IN  /\ buckets' = [buckets EXCEPT ![Host] = r]
      /\ result' = [op |-> "peek", arg |-> 0, val |-> r.tokens]
      /\ UNCHANGED <<clock, created, limiterVars>>

\* bucket.time_until_tokens(n)
BucketTimeUntil(n) ==
  /\ buckets' = [buckets EXCEPT ![Host] = Refill(@, clock)]
  /\ result' = [op |-> "time_until_tokens", arg |-> n,
                val |-> TimeUntilTokens(buckets[Host], n, clock)]
  /\ UNCHANGED <<clock, created, limiterVars>>

\* Rates written to bucket.rate: limit / time_until_reset for a zero, a
\* negative and a positive declared limit.
DirectRates == {Zero, RInt(-SteadyRate), RInt(2 * SteadyRate)}

\* bucket.rate = new_rate
SetRate(r) ==
  /\ RLe(RInt(-TokenFloor), buckets[Host].tokens)
  /\ buckets[Host].rate # r
  /\ buckets' = [buckets EXCEPT ![Host].rate = r]
  /\ UNCHANGED <<clock, created, result, limiterVars>>

\* The threads that use the one bucket: two that call consume(1) and one
\* that handles responses.
RaceConsumers == {1, 2}
RaceResponder == 3
RaceThreads == RaceConsumers \cup {RaceResponder}

\* The bucket as constructed, its lock free, every thread between calls.
RacingInit ==
  [bucket |-> NewBucket(RInt(SteadyRate), Burst, Zero, RInt(Burst)),
   holder |-> 0,
   pc |-> [t \in RaceThreads |-> "idle"],
   now |-> [t \in RaceThreads |-> Zero],
   new_tokens |-> [t \in RaceThreads |-> Zero],
   new_rate |-> Zero,
   actor |-> 0]

\* The threads that record events, and the decisions of their events.
RecThreads == 1..NumRecorders
RecDecisions == {"allow", "throttle"}

\* TelemetryRecorder.__init__: no event, zero statistics, _stats_lock free.
RecorderInit ==
  [events |-> <<>>,
   total_requests |-> 0,
   decisions_by_type |-> [d \in RecDecisions |-> 0],
   stats_holder |-> 0,
   pc |-> [t \in RecThreads |-> "idle"],
   pending |-> [t \in RecThreads |-> "allow"],
   read |-> [t \in RecThreads |-> 0],
   done |-> [t \in RecThreads |-> 0]]

\* The threads that call acquire, and the locks they take:
\* RateLimiter._bucket_lock, TokenBucket._lock, RateLimiter._stats_lock,
\* FakeTimeProvider._lock and TelemetryRecorder._events_lock.
LockThreads == 1..NumLockers
LockNames == {"bucket_map", "bucket", "stats", "clock", "events"}

\* RateLimiter.__init__: every lock free, every permit of _semaphore free,
\* no bucket, every thread before its call.
LockingInit ==
  [held |-> [n \in LockNames |-> 0],
   permits |-> MaxConcurrency,
   exists |-> FALSE,
   phase |-> [t \in LockThreads |-> "idle"],
   todo |-> [t \in LockThreads |-> <<>>]]

\* The limiter is constructed and unused: RateLimiter.__init__
LimiterInit ==
  /\ sem = MaxConcurrency
  /\ asem = MaxConcurrency
  /\ stats = [requests_total |-> 0, requests_throttled |-> 0,
              requests_429 |-> 0, requests_5xx |-> 0,
              total_wait_time |-> Zero, adaptive_adjustments |-> 0]
  /\ pc = [c \in Callers |-> "idle"]
  /\ wait_time = [c \in Callers |-> Zero]
  /\ sleep_time = [c \in Callers |-> Zero]
  /\ started = 0
  /\ responses = 0
  /\ granted = 0
  /\ burstClean = FALSE
  /\ grantNo = [c \in Callers |-> 0]
  /\ sawEmpty = [c \in Callers |-> FALSE]
  /\ window = NoWindow
  /\ req = NoRequest
  /\ memo = NoResult
  /\ snapshot = NoSnapshot
  /\ events = <<>>
  /\ guards = <<>>
  /\ pair = [sync |-> NewLimiter, async |-> NewLimiter]
  /\ racing = RacingInit
  /\ recorder = RecorderInit
  /\ locking = LockingInit

\* One TokenBucket(rate, capacity, time_provider, initial_tokens) under test.
BucketInit ==
  /\ clock = Zero
  /\ \E t \in 0..Burst :
       buckets = (Host :> NewBucket(RInt(SteadyRate), Burst, Zero, RInt(t)))
  /\ created = Zero
  /\ result = NoResult
  /\ LimiterInit

BucketCalls ==
  \/ \E n \in 1..MaxConsume : BucketConsume(n)
  \/ BucketPeek
  \/ \E n \in 1..MaxConsume : BucketTimeUntil(n)
  \/ \E k \in 1..MaxAdvance : Advance(k)

\* Direct calls with a clock that never moves back and a fixed rate.
BucketMonoNext == BucketCalls

SpecBucketMono == BucketInit /\ [][BucketMonoNext]_vars

\* Direct calls, the clock also set back and the rate also replaced.
BucketNext ==
  \/ BucketCalls
  \/ \E k \in 0..MaxTicks : ClockSet(k)
  \/ \E r \in DirectRates : SetRate(r)

SpecBucket == BucketInit /\ [][BucketNext]_vars

\* -------------------------------------------------------- RateLimiter
\* Mutant of GetOrCreateBucket: a new bucket on every call.
GetOrCreateBucketAlways(bs, now) ==
  (Host :> NewBucket(RInt(SteadyRate), Burst, now, RInt(Burst)))

\* RateLimiter._get_or_create_bucket
GetOrCreateBucket(bs, now) ==
  IF Host \in DOMAIN bs
    THEN bs
    ELSE (Host :> NewBucket(RInt(SteadyRate), Burst, now, RInt(Burst)))

\* Positions of acquire / acquire_async between the semaphore's acquire and
\* its release in the finally block.
InScope == {"consume", "until", "sleep", "stats", "telemetry", "body"}
\* Positions at which the token has been consumed.
Granted == {"stats", "telemetry", "body"}

\* acquire called: bucket_key, bucket = _get_or_create_bucket(bucket_key)
Start(c) ==
  /\ pc[c] = "idle"
  /\ started < MaxRequests
  /\ \A d \in Callers : (d < c /\ IsSync(d) = IsSync(c)) => pc[d] # "idle"
  /\ started' = started + 1
  /\ buckets' = GetOrCreateBucket(buckets, clock)
  /\ created' = IF Host \in DOMAIN buckets THEN created ELSE clock
  /\ pc' = [pc EXCEPT ![c] = "gate"]
  /\ UNCHANGED <<clock, result, sem, asem, stats, wait_time, sleep_time,
                 responses, window, callerVars, granted, burstClean, grantNo,
                 sawEmpty>>

\* Mutant of Enter: the semaphore does not block when no permit is free.
EnterUnguarded(c) ==
  /\ pc[c] = "gate"
  /\ IF IsSync(c)
       THEN sem' = sem - 1 /\ UNCHANGED asem
       ELSE asem' = asem - 1 /\ UNCHANGED sem
  /\ pc' = [pc EXCEPT ![c] = "consume"]
  /\ wait_time' = [wait_time EXCEPT ![c] = Zero]
  /\ UNCHANGED <<clock, buckets, created, result, stats, sleep_time, started,
                 responses, window, callerVars, granted, burstClean, grantNo,
                 sawEmpty>>

\* self._semaphore.acquire() / await self._async_semaphore.acquire(),
\* then wait_time = 0.0
Enter(c) ==
  /\ pc[c] = "gate"
  /\ IF IsSync(c)
       THEN sem > 0 /\ sem' = sem - 1 /\ UNCHANGED asem
       ELSE asem > 0 /\ asem' = asem - 1 /\ UNCHANGED sem
  /\ pc' = [pc EXCEPT ![c] = "consume"]
  /\ wait_time' = [wait_time EXCEPT ![c] = Zero]
  /\ UNCHANGED <<clock, buckets, created, result, stats, sleep_time, started,
                 responses, window, callerVars, granted, burstClean, grantNo,
                 sawEmpty>>

\* while not bucket.consume(1)
TryConsume(c) ==
  /\ pc[c] = "consume"
  /\ LET r == Consume(buckets[Host], 1, clock)
     IN  /\ buckets' = [buckets EXCEPT ![Host] = r.bucket]
         /\ IF r.ok
              THEN /\ pc' = [pc EXCEPT ![c] = "stats"]
                   /\ granted' = granted + 1
                   /\ burstClean' = IF granted + 1 = Burst
                                      THEN clock = created
                                      ELSE burstClean
                   /\ grantNo' = [grantNo EXCEPT ![c] = granted + 1]
                   /\ UNCHANGED sawEmpty
              ELSE /\ pc' = [pc EXCEPT ![c] = "until"]
                   /\ sawEmpty' = [sawEmpty EXCEPT ![c] = @ \/ clock = created]
                   /\ UNCHANGED <<granted, burstClean, grantNo>>
  /\ UNCHANGED <<clock, created, result, sem, asem, stats, wait_time,
                 sleep_time, started, responses, window, callerVars>>

\* sleep_time = bucket.time_until_tokens(1); if sleep_time > 0
TimeUntil(c) ==
  /\ pc[c] = "until"
  /\ LET t == TimeUntilTokens(buckets[Host], 1, clock)
     IN  /\ sleep_time' = [sleep_time EXCEPT ![c] = t]
         /\ pc' = [pc EXCEPT ![c] = IF RLt(Zero, t) THEN "sleep" ELSE "consume"]
  /\ buckets' = [buckets EXCEPT ![Host] = Refill(@, clock)]
  /\ UNCHANGED <<clock, created, result, sem, asem, stats, wait_time, started,
                 responses, window, callerVars, granted, burstClean, grantNo,
                 sawEmpty>>

\* Mutant of Sleep: the whole sleep_time is slept and added at once.
SleepUncapped(c) ==
  /\ pc[c] = "sleep"
  /\ RLt(wait_time[c], Ticks(MaxSleeps))
  /\ wait_time' = [wait_time EXCEPT ![c] = RAdd(@, sleep_time[c])]
  /\ pc' = [pc EXCEPT ![c] = "consume"]
  /\ UNCHANGED <<clock, buckets, created, result, sem, asem, stats, sleep_time,
                 started, responses, window, callerVars, granted,
                 burstClean, grantNo, sawEmpty>>

\* time.sleep(min(sleep_time, 0.1)); wait_time += min(sleep_time, 0.1)
Sleep(c) ==
  /\ pc[c] = "sleep"
  /\ RLt(wait_time[c], Ticks(MaxSleeps))
  /\ wait_time' = [wait_time EXCEPT ![c] = RAdd(@, RMin(sleep_time[c], Tenth))]
  /\ pc' = [pc EXCEPT ![c] = "consume"]
  /\ UNCHANGED <<clock, buckets, created, result, sem, asem, stats, sleep_time,
                 started, responses, window, callerVars, granted,
                 burstClean, grantNo, sawEmpty>>

\* Mutant of UpdateStats: the counters are read and written back without
\* _stats_lock, so the update of a caller is lost when another caller is
\* between its read and its write.
UpdateStatsUnlocked(c) ==
  /\ pc[c] = "stats"
  /\ stats' =
       IF \E d \in Callers \ {c} : pc[d] = "stats"
         THEN stats
       ELSE IF RLt(Zero, wait_time[c])
         THEN [stats EXCEPT !.requests_total = @ + 1,
                            !.requests_throttled = @ + 1,
                            !.total_wait_time = RAdd(@, wait_time[c])]
         ELSE [stats EXCEPT !.requests_total = @ + 1]
  /\ pc' = [pc EXCEPT ![c] = "telemetry"]
  /\ UNCHANGED <<clock, buckets, created, result, sem, asem, wait_time,
                 sleep_time, started, responses, window, callerVars, granted,
                 burstClean, grantNo, sawEmpty>>

\* with self._stats_lock: requests_total += 1; if wait_time > 0: ...
UpdateStats(c) ==
  /\ pc[c] = "stats"
  /\ stats' =
       IF RLt(Zero, wait_time[c])
         THEN [stats EXCEPT !.requests_total = @ + 1,
                            !.requests_throttled = @ + 1,
                            !.total_wait_time = RAdd(@, wait_time[c])]
         ELSE [stats EXCEPT !.requests_total = @ + 1]
  /\ pc' = [pc EXCEPT ![c] = "telemetry"]
  /\ UNCHANGED <<clock, buckets, created, result, sem, asem, wait_time,
                 sleep_time, started, responses, window, callerVars, granted,
                 burstClean, grantNo, sawEmpty>>

\* Mutant of Emit: the event reports the last sleep_time computed.
EmitSleepTime(c) ==
  /\ pc[c] = "telemetry"
  /\ buckets' = [buckets EXCEPT ![Host] = Peek(@, clock)]
  /\ guards' = Append(guards, [wait_time |-> wait_time[c],
                               grant |-> grantNo[c]])
  /\ events' = Append(events,
                      [decision |-> IF RLt(Zero, sleep_time[c])
                                      THEN "throttle" ELSE "allow",
                       sleep_s |-> sleep_time[c],
                       grant |-> grantNo[c]])
  /\ pc' = [pc EXCEPT ![c] = "body"]
  /\ UNCHANGED <<clock, created, result, sem, asem, stats, wait_time,
                 sleep_time, started, responses, window, req, memo, snapshot,
                 pair, auxVars,
                 granted, burstClean, grantNo, sawEmpty>>

\* guard = RateLimitGuard(wait_time=wait_time, ...); decision = THROTTLE if
\* wait_time > 0 else ALLOW; create_event(..., sleep_s=wait_time,
\* tokens_available=bucket.peek()); get_recorder().record(event); yield guard
Emit(c) ==
  /\ pc[c] = "telemetry"
  /\ buckets' = [buckets EXCEPT ![Host] = Peek(@, clock)]
  /\ guards' = Append(guards, [wait_time |-> wait_time[c],
                               grant |-> grantNo[c]])
  /\ events' = Append(events,
                      [decision |-> IF RLt(Zero, wait_time[c])
                                      THEN "throttle" ELSE "allow",
                       sleep_s |-> wait_time[c],
                       grant |-> grantNo[c]])
  /\ pc' = [pc EXCEPT ![c] = "body"]
  /\ UNCHANGED <<clock, created, result, sem, asem, stats, wait_time,
                 sleep_time, started, responses, window, req, memo, snapshot,
                 pair, auxVars,
                 granted, burstClean, grantNo, sawEmpty>>

\* finally: self._semaphore.release() / self._async_semaphore.release();
\* the generator ends and its locals are gone.
Finally(c) ==
  /\ IF IsSync(c)
       THEN sem' = sem + 1 /\ UNCHANGED asem
       ELSE asem' = asem + 1 /\ UNCHANGED sem
  /\ pc' = [pc EXCEPT ![c] = "idle"]
  /\ wait_time' = [wait_time EXCEPT ![c] = Zero]
  /\ sleep_time' = [sleep_time EXCEPT ![c] = Zero]
  /\ grantNo' = [grantNo EXCEPT ![c] = 0]
  /\ sawEmpty' = [sawEmpty EXCEPT ![c] = FALSE]

\* The caller's with-block ends normally.
Release(c) ==
  /\ pc[c] = "body"
  /\ Finally(c)
  /\ UNCHANGED <<clock, buckets, created, result, stats, started, responses,
                 window, callerVars, granted, burstClean>>

\* Mutant of Raise: the exception leaves the scope without the finally block.
RaiseWithoutRelease(c) ==
  /\ pc[c] \in InScope
  /\ pc' = [pc EXCEPT ![c] = "idle"]
  /\ wait_time' = [wait_time EXCEPT ![c] = Zero]
  /\ sleep_time' = [sleep_time EXCEPT ![c] = Zero]
  /\ grantNo' = [grantNo EXCEPT ![c] = 0]
  /\ sawEmpty' = [sawEmpty EXCEPT ![c] = FALSE]
  /\ UNCHANGED <<clock, buckets, created, result, sem, asem, stats, started,
                 responses, window, callerVars, granted, burstClean>>

\* An exception inside the try block: raised in the token wait, the stats
\* update or the telemetry step, or thrown into the generator by the
\* caller's with-block.
Raise(c) ==
  /\ pc[c] \in InScope
  /\ Finally(c)
  /\ UNCHANGED <<clock, buckets, created, result, stats, started, responses,
                 window, callerVars, granted, burstClean>>

\* ------------------------------- acquire and acquire_async side by side
\* RateLimiter.acquire, one step of caller c on limiter L at time now: the
\* call, self._semaphore.acquire(), bucket.consume(1),
\* bucket.time_until_tokens(1), time.sleep(min(sleep_time, 0.1)), the
\* counter update, the event and the yield, and the release in finally.
SyncStep(L, c, now) ==
  CASE L.pc[c] = "idle" ->
         [L EXCEPT !.buckets = GetOrCreateBucket(@, now),
                   !.started = @ + 1,
                   !.pc[c] = "gate"]
    [] L.pc[c] = "gate" ->
         IF L.permits > 0
           THEN [L EXCEPT !.permits = @ - 1,
                          !.wait_time[c] = Zero,
                          !.pc[c] = "consume"]
           ELSE L
    [] L.pc[c] = "consume" ->
         LET r == Consume(L.buckets[Host], 1, now)
         IN  [L EXCEPT !.buckets[Host] = r.bucket,
                       !.pc[c] = IF r.ok THEN "stats" ELSE "until"]
    [] L.pc[c] = "until" ->
         LET t == TimeUntilTokens(L.buckets[Host], 1, now)
         IN  [L EXCEPT !.buckets[Host] = Refill(@, now),
                       !.sleep_time[c] = t,
                       !.pc[c] = IF RLt(Zero, t) THEN "sleep" ELSE "consume"]
    [] L.pc[c] = "sleep" ->
         [L EXCEPT !.wait_time[c] = RAdd(@, RMin(L.sleep_time[c], Tenth)),
                   !.pc[c] = "consume"]
    [] L.pc[c] = "stats" ->
         [L EXCEPT !.stats =
                     IF RLt(Zero, L.wait_time[c])
                       THEN [@ EXCEPT !.requests_total = @ + 1,
                                      !.requests_throttled = @ + 1,
                                      !.total_wait_time =
                                         RAdd(@, L.wait_time[c])]
                       ELSE [@ EXCEPT !.requests_total = @ + 1],
                   !.pc[c] = "telemetry"]
    [] L.pc[c] = "telemetry" ->
         [L EXCEPT !.buckets[Host] = Peek(@, now),
                   !.guards = Append(@, L.wait_time[c]),
                   !.pc[c] = "body"]
    [] L.pc[c] = "body" ->
         [L EXCEPT !.permits = @ + 1,
                   !.wait_time[c] = Zero,
                   !.sleep_time[c] = Zero,
                   !.pc[c] = "idle"]

\* Mutant of acquire_async: the whole sleep_time is awaited and added.
AsyncStepUncapped(L, c, now) ==
  IF L.pc[c] = "sleep"
    THEN [L EXCEPT !.wait_time[c] = RAdd(@, L.sleep_time[c]),
                   !.pc[c] = "consume"]
    ELSE SyncStep(L, c, now)

\* RateLimiter.acquire_async, one step of caller c on limiter L at time
\* now: the call, await self._async_semaphore.acquire(), bucket.consume(1),
\* bucket.time_until_tokens(1), await asyncio.sleep(min(sleep_time, 0.1)),
\* the counter update, the event and the yield, and the release in finally.
AsyncStep(L, c, now) ==
  CASE L.pc[c] = "idle" ->
         [L EXCEPT !.buckets = GetOrCreateBucket(@, now),
                   !.started = @ + 1,
                   !.pc[c] = "gate"]
    [] L.pc[c] = "gate" ->
         IF L.permits > 0
           THEN [L EXCEPT !.permits = @ - 1,
                          !.wait_time[c] = Zero,
                          !.pc[c] = "consume"]
           ELSE L
    [] L.pc[c] = "consume" ->
         LET r == Consume(L.buckets[Host], 1, now)
         IN  [L EXCEPT !.buckets[Host] = r.bucket,
                       !.pc[c] = IF r.ok THEN "stats" ELSE "until"]
    [] L.pc[c] = "until" ->
         LET t == TimeUntilTokens(L.buckets[Host], 1, now)
         IN  [L EXCEPT !.buckets[Host] = Refill(@, now),
                       !.sleep_time[c] = t,
                       !.pc[c] = IF RLt(Zero, t) THEN "sleep" ELSE "consume"]
    [] L.pc[c] = "sleep" ->
         [L EXCEPT !.wait_time[c] = RAdd(@, RMin(L.sleep_time[c], Tenth)),
                   !.pc[c] = "consume"]
    [] L.pc[c] = "stats" ->
         [L EXCEPT !.stats =
                     IF RLt(Zero, L.wait_time[c])
                       THEN [@ EXCEPT !.requests_total = @ + 1,
                                      !.requests_throttled = @ + 1,
                                      !.total_wait_time =
                                         RAdd(@, L.wait_time[c])]
                       ELSE [@ EXCEPT !.requests_total = @ + 1],
                   !.pc[c] = "telemetry"]
    [] L.pc[c] = "telemetry" ->
         [L EXCEPT !.buckets[Host] = Peek(@, now),
                   !.guards = Append(@, L.wait_time[c]),
                   !.pc[c] = "body"]
    [] L.pc[c] = "body" ->
         [L EXCEPT !.permits = @ + 1,
                   !.wait_time[c] = Zero,
                   !.sleep_time[c] = Zero,
                   !.pc[c] = "idle"]

\* An exception raised in the token wait, or thrown into the generator by
\* the caller's with-block: the steps between the successful consume and the
\* yield (the counter update under _stats_lock, RateLimitGuard, create_event,
\* TelemetryRecorder.record) do not raise.
RaiseInWaitOrBody(c) ==
  /\ pc[c] \notin {"stats", "telemetry"}
  /\ Raise(c)

\* ------------------------------------------- handle_response_headers
\* RateLimiter.__init__: retry configuration
MaxRetries5xx == 3
BaseBackoff == 1
MaxBackoff == 60

\* A header of the response: absent, present and unparseable, or a number.
\* An integer header carries an integer, a float header a rational.
AbsentI == <<"absent", 0>>
BadI == <<"bad", 0>>
NumI(n) == <<"num", n>>
AbsentF == <<"absent", Zero>>
BadF == <<"bad", Zero>>
NumF(x) == <<"num", x>>
\* Retry-After as an HTTP-date: the instant it names.
DateF(x) == <<"date", x>>
IsNum(v) == v[1] = "num"

\* What a handle_response_headers call hands back: None, a wait in seconds,
\* or an exception it let escape.
RetNone == [kind |-> "none", wait |-> Zero]
RetWait(w) == [kind |-> "wait", wait |-> w]
RetRaise == [kind |-> "raise", wait |-> Zero]

\* 2 ** attempt
RECURSIVE Pow2(_)
Pow2(k) == IF k = 0 THEN 1 ELSE 2 * Pow2(k - 1)

\* x * 2 ** k if that is at most limit, and otherwise some x * 2 ** j above
\* limit: enough for min(x * 2 ** k, limit) without the huge powers.
RECURSIVE Doubled(_, _, _)
Doubled(x, k, limit) ==
  IF k = 0 \/ x > limit THEN x ELSE Doubled(2 * x, k - 1, limit)

\* RateLimiter._calculate_backoff; jf is 0.75 + random.random() * 0.5, or 1
\* without jitter.
CalculateBackoff(attempt, jf) ==
  LET backoff == Doubled(BaseBackoff, attempt, MaxBackoff)
      capped == IF backoff <= MaxBackoff THEN backoff ELSE MaxBackoff
  IN  RMul(RInt(capped), jf)

\* self._base_backoff * (2 ** attempt) multiplies a float by an int: the int
\* is converted to float, which raises OverflowError from 2 ** 1024 on
\* (sys.float_info.max_exp).
FloatMaxExp == 1024
BackoffOverflows(attempt) == attempt >= FloatMaxExp

\* The attempt numbers _calculate_backoff is exercised with on its own: the
\* first ones, 100, and those on both sides of the conversion limit.
MaxBackoffAttempt == 40
BackoffAttempts ==
  (0..MaxBackoffAttempt) \cup {100, FloatMaxExp - 1, FloatMaxExp}

\* limiter._calculate_backoff(attempt, jitter), the jitter draw being jf
CalculateBackoffCall(attempt, jitter, jf) ==
  /\ result' = [op |-> "calculate_backoff",
                arg |-> <<attempt, jitter>>,
                val |-> IF BackoffOverflows(attempt) THEN RetRaise
                        ELSE RetWait(CalculateBackoff(
                               attempt, IF jitter THEN jf ELSE RInt(1)))]
  /\ UNCHANGED <<clock, buckets, created, limiterVars>>

\* Mutant of _parse_retry_after: the seconds form is not recognised.
ParseRetryAfterDateOnly(v, now) ==
  IF v[1] = "date" THEN RetWait(RMax(Zero, RSub(v[2], now))) ELSE RetNone

\* Mutant of _parse_retry_after: a value that does not parse yields the
\* maximum backoff as a default.
ParseRetryAfterDefault(v, now) ==
  IF v[1] = "num" THEN RetWait(v[2])
  ELSE IF v[1] = "date" THEN RetWait(RMax(Zero, RSub(v[2], now)))
  ELSE IF v[1] = "bad" THEN RetWait(RInt(MaxBackoff))
  ELSE RetNone

\* RateLimiter._parse_retry_after: the seconds to wait, or None.
ParseRetryAfter(v, now) ==
  IF v[1] = "num" THEN RetWait(v[2])
  ELSE IF v[1] = "date" THEN RetWait(RMax(Zero, RSub(v[2], now)))
  ELSE RetNone

\* Mutant of _apply_adaptive_rate: the candidate rate is computed from the
\* declared remaining instead of the declared limit.
AdaptiveCandidateFromRemaining(h, now) ==
  RDiv(RInt(IF IsNum(h.remaining) THEN h.remaining[2] ELSE 0),
       RMax(Zero, RSub(h.reset[2], now)))

\* _apply_adaptive_rate: new_rate = limit / time_until_reset
AdaptiveCandidate(h, now) ==
  RDiv(RInt(h.limit[2]), RMax(Zero, RSub(h.reset[2], now)))

\* _apply_adaptive_rate: abs(new_rate - bucket.rate) / bucket.rate > 0.1
\* (bucket.rate # 0)
SignificantlyDifferent(new_rate, rate) ==
  RLt(Tenth, RDiv(RAbs(RSub(new_rate, rate)), rate))

\* RateLimiter._apply_adaptive_rate: the bucket and the stats after it, and
\* whether the division by bucket.rate raised ZeroDivisionError.
ApplyAdaptiveRate(b, st, now, h) ==
  IF ~IsNum(h.limit) \/ ~IsNum(h.reset)
       \/ ~RLt(Zero, RMax(Zero, RSub(h.reset[2], now)))
    THEN [bucket |-> b, stats |-> st, raised |-> FALSE]
  ELSE IF b.rate = Zero
    THEN [bucket |-> b, stats |-> st, raised |-> TRUE]
  ELSE IF SignificantlyDifferent(AdaptiveCandidate(h, now), b.rate)
    THEN [bucket |-> [b EXCEPT !.rate = AdaptiveCandidate(h, now)],
          stats |-> [st EXCEPT !.adaptive_adjustments = @ + 1],
          raised |-> FALSE]
  ELSE [bucket |-> b, stats |-> st, raised |-> FALSE]

\* handle_response_headers from "Handle 429" on: the status classification.
\* Every branch that returns a wait emits an event, which peeks the bucket.
ClassifyStatus(b, st, now, status, h, jf) ==
  IF status = 429
    THEN LET ra == ParseRetryAfter(h.retry_after, now)
         IN  [bucket |-> Peek(b, now),
              stats |-> [st EXCEPT !.requests_429 = @ + 1],
              ret |-> IF ra.kind = "wait" THEN ra
                      ELSE RetWait(CalculateBackoff(0, jf))]
  ELSE IF 500 <= status /\ status < 600
    THEN [bucket |-> Peek(b, now),
          stats |-> [st EXCEPT !.requests_5xx = @ + 1],
          ret |-> RetWait(CalculateBackoff(0, jf))]
  ELSE [bucket |-> b, stats |-> st, ret |-> RetNone]

\* RateLimiter.handle_response_headers on bucket b: the bucket and the stats
\* after the call and what it returns.
HandleResponseHeaders(b, st, now, status, h, jf) ==
  LET hasInfo == IsNum(h.limit) \/ IsNum(h.remaining) \/ IsNum(h.reset)
      a == ApplyAdaptiveRate(b, st, now, h)
      seen == Peek(a.bucket, now)
      remaining == IF IsNum(h.remaining) THEN h.remaining[2] ELSE 0
  IN  IF ~hasInfo
        THEN ClassifyStatus(b, st, now, status, h, jf)
      ELSE IF a.raised
        THEN [bucket |-> b, stats |-> st, ret |-> RetRaise]
      ELSE IF remaining = 0 /\ IsNum(h.reset)
        THEN [bucket |-> seen,
              stats |-> [a.stats EXCEPT !.requests_throttled = @ + 1],
              ret |-> RetWait(RMax(Zero, RSub(h.reset[2], now)))]
      ELSE ClassifyStatus(seen, a.stats, now, status, h, jf)

\* RateLimiter.handle_response_headers on limiter L: the bucket and the
\* counters after the call.
RespondOn(L, h, now) ==
  LET bs == GetOrCreateBucket(L.buckets, now)
      r == HandleResponseHeaders(bs[Host], L.stats, now, h.status, h, h.jf)
  IN  [L EXCEPT !.buckets = [bs EXCEPT ![Host] = r.bucket],
                !.stats = r.stats]

\* Responses of the model run: header values, statuses and jitter draws.
LimitHeaders ==
  {AbsentI, BadI, NumI(-SteadyRate), NumI(0), NumI(SteadyRate),
   NumI(2 * SteadyRate)}
RemainingHeaders == {AbsentI, NumI(0), NumI(2 * SteadyRate - 2)}
\* X-RateLimit-Reset: a tenth of a second ago, or one second from now.
ResetHeaders(now) ==
  {AbsentF, NumF(RSub(now, Tenth)), NumF(RAdd(now, RInt(1)))}
JitterFactors == {Rat(3, 4), RInt(1)}

\* The attempt numbers callers pass: the first attempts and the ones at and
\* past the 5xx retry limit.
Attempts == {0, MaxRetries5xx}

\* A handle_response_headers call: the status, the four configured headers,
\* the attempt argument (handed on to the telemetry events only), and the
\* jitter factor random.random() yields if the call computes a backoff.
Response(status, limit, remaining, reset, retry_after, jf, attempt) ==
  [status |-> status, limit |-> limit, remaining |-> remaining,
   reset |-> reset, retry_after |-> retry_after, jf |-> jf,
   attempt |-> attempt]

\* 200 responses with every combination of the rate-limit headers.
SuccessResponses(now) ==
  {Response(200, l, m, t, AbsentF, RInt(1), 0) :
     l \in LimitHeaders, m \in RemainingHeaders, t \in ResetHeaders(now)}

\* The rate-limit headers of a failure response: none, a reset already
\* past with no remaining header, a limit of 2R with remaining = 0 and a
\* reset one second ahead, or a healthy budget with the same reset under a
\* limit of 0 or 2R.
FailureHeaders(now) ==
  {<<AbsentI, AbsentI, AbsentF>>,
   <<AbsentI, AbsentI, NumF(RSub(now, Tenth))>>,
   <<NumI(2 * SteadyRate), NumI(0), NumF(RAdd(now, RInt(1)))>>,
   <<NumI(0), NumI(2 * SteadyRate - 2), NumF(RAdd(now, RInt(1)))>>,
   <<NumI(2 * SteadyRate), NumI(2 * SteadyRate - 2), NumF(RAdd(now, RInt(1)))>>}

\* Retry-After values that parse: seconds ("2", "-2"), or an HTTP-date a
\* tenth of a second ago or three seconds ahead.
RetryAfterHeaders(now) ==
  {NumF(RInt(2)), NumF(RInt(-2)), DateF(RSub(now, Tenth)),
   DateF(RAdd(now, RInt(3)))}

\* 429 responses: Retry-After parseable, or absent / unparseable with a
\* backoff.
ThrottleResponses(now) ==
  {Response(429, f[1], f[2], f[3], ra, RInt(1), 0) :
     f \in FailureHeaders(now), ra \in RetryAfterHeaders(now)}
  \cup {Response(429, f[1], f[2], f[3], ra, jf, k) :
          f \in FailureHeaders(now), ra \in {AbsentF, BadF},
          jf \in JitterFactors, k \in Attempts}

\* 503 responses.
ErrorResponses(now) ==
  {Response(503, f[1], f[2], f[3], AbsentF, jf, k) :
     f \in FailureHeaders(now), jf \in JitterFactors, k \in Attempts}

\* Responses whose status or headers decide the returned wait: every 429
\* and 503, and the 200 responses with the same rate-limit headers.
ClassifyResponses(now) ==
  ThrottleResponses(now) \cup ErrorResponses(now)
    \cup {Response(200, f[1], f[2], f[3], AbsentF, RInt(1), 0) :
            f \in FailureHeaders(now)}

Responses(now) == SuccessResponses(now) \cup ClassifyResponses(now)

\* History of the server's declarations: a response that was processed
\* without raising and declared remaining and a reset ahead of the clock
\* replaces the recorded window; any other response leaves it.
Declared(h, ret) ==
  IF /\ ret.kind # "raise"
     /\ IsNum(h.remaining) /\ IsNum(h.reset) /\ RLt(clock, h.reset[2])
    THEN [remaining |-> h.remaining[2], reset |-> h.reset[2],
          grants |-> granted]
    ELSE window

\* limiter.handle_response_headers(request_spec, headers, status) called by
\* caller c inside its acquire scope; an exception it raises leaves the
\* with-block, which releases the permit.
HandleResponse(c, h) ==
  /\ pc[c] = "body"
  /\ responses < MaxResponses
  /\ responses' = responses + 1
  /\ LET r == HandleResponseHeaders(buckets[Host], stats, clock, h.status,
                                    h, h.jf)
     IN  /\ buckets' = [buckets EXCEPT ![Host] = r.bucket]
         /\ stats' = r.stats
         /\ result' = [op |-> "handle_response", arg |-> h.status,
                       val |-> r.ret, attempt |-> h.attempt]
         /\ IF r.ret.kind = "raise"
              THEN Finally(c)
              ELSE UNCHANGED <<sem, asem, pc, wait_time, sleep_time, grantNo,
                                sawEmpty>>
         /\ window' = Declared(h, r.ret)
  /\ UNCHANGED <<clock, created, started, granted, burstClean, callerVars>>

\* The same call made outside any acquire scope (the bucket is created on
\* first use): its effect on the limiter.
HandleOutside(h) ==
  /\ responses' = responses + 1
  /\ LET bs == GetOrCreateBucket(buckets, clock)
         r == HandleResponseHeaders(bs[Host], stats, clock, h.status, h, h.jf)
     IN  /\ buckets' = [bs EXCEPT ![Host] = r.bucket]
         /\ stats' = r.stats
         /\ result' = [op |-> "handle_response", arg |-> h.status,
                       val |-> r.ret, attempt |-> h.attempt]
         /\ window' = Declared(h, r.ret)
  /\ created' = IF Host \in DOMAIN buckets THEN created ELSE clock
  /\ UNCHANGED <<sem, asem, pc, wait_time, sleep_time, started, granted,
                 burstClean, grantNo, sawEmpty>>

\* The call made by a caller that keeps no retry loop: at most MaxOutside
\* of them in a run.
HandleResponseOutside(h) ==
  /\ responses < MaxOutside
  /\ HandleOutside(h)
  /\ UNCHANGED <<clock, callerVars>>

\* The methods callers pass to should_retry, and str.upper on them.
Methods == {"GET", "get", "DELETE", "POST", "patch"}

\* The method, status and attempt arguments should_retry is exercised with
\* on its own: every idempotent method, spellings in lower and mixed case,
\* and the statuses around 429 and around both ends of 500..599.
AllMethods ==
  Methods \cup {"HEAD", "head", "PUT", "Put", "OPTIONS", "options", "post",
                "PATCH", "TRACE"}
MaxAttempt == 4
RetryAttempts == -1 .. MaxAttempt
RetryStatuses == {200, 404, 428, 429, 430, 499, 500, 503, 599, 600}

\* Mutant of method.upper(): the method is compared as spelt.
UpperAsSpelt(method) == method

\* method.upper()
Upper(method) ==
  CASE method = "get" -> "GET"
    [] method = "patch" -> "PATCH"
    [] method = "head" -> "HEAD"
    [] method = "Put" -> "PUT"
    [] method = "options" -> "OPTIONS"
    [] method = "post" -> "POST"
    [] OTHER -> method

\* Mutant of should_retry: the attempt number is not checked.
ShouldRetryUnbounded(status_code, attempt, method) ==
  IF status_code = 429 THEN TRUE
  ELSE IF 500 <= status_code /\ status_code < 600
    THEN Upper(method) \in {"GET", "HEAD", "PUT", "DELETE", "OPTIONS"}
  ELSE FALSE

\* Mutant of should_retry: the failures the limiter has counted are taken
\* off the retries left.
ShouldRetryCounting(status_code, attempt, method) ==
  IF status_code = 429 THEN TRUE
  ELSE IF 500 <= status_code /\ status_code < 600
    THEN IF Upper(method) \notin {"GET", "HEAD", "PUT", "DELETE", "OPTIONS"}
           THEN FALSE
         ELSE IF attempt + stats.requests_5xx >= MaxRetries5xx THEN FALSE
         ELSE TRUE
  ELSE FALSE

\* RateLimiter.should_retry
ShouldRetry(status_code, attempt, method) ==
  IF status_code = 429 THEN TRUE
  ELSE IF 500 <= status_code /\ status_code < 600
    THEN IF Upper(method) \notin {"GET", "HEAD", "PUT", "DELETE", "OPTIONS"}
           THEN FALSE
         ELSE IF attempt >= MaxRetries5xx THEN FALSE
         ELSE TRUE
  ELSE FALSE

\* limiter.should_retry(status_code, attempt, method)
ShouldRetryCall(status_code, attempt, method) ==
  /\ result' = [op |-> "should_retry",
                arg |-> <<status_code, attempt, method>>,
                val |-> ShouldRetry(status_code, attempt, method)]
  /\ UNCHANGED <<clock, buckets, created, limiterVars>>

\* Mutant of get_stats: self._stats itself is returned.
GetStatsLive ==
  /\ snapshot' = [taken |-> TRUE, live |-> TRUE, val |-> stats]
  /\ UNCHANGED <<clock, buckets, created, result, sem, asem, stats, pc,
                 wait_time, sleep_time, started, responses, granted,
                 burstClean, grantNo, sawEmpty, window, req, memo,
                 handoverVars, pair,
                 auxVars>>

\* RateLimiter.get_stats: a new RateLimiterStats object holding the six
\* counters of self._stats as they are now.
GetStats ==
  /\ snapshot' = [taken |-> TRUE, live |-> FALSE, val |-> stats]
  /\ UNCHANGED <<clock, buckets, created, result, sem, asem, stats, pc,
                 wait_time, sleep_time, started, responses, granted,
                 burstClean, grantNo, sawEmpty, window, req, memo,
                 handoverVars, pair,
                 auxVars>>

\* RateLimiter.reset_stats: self._stats = RateLimiterStats()
ResetStats ==
  /\ stats' = [requests_total |-> 0, requests_throttled |-> 0,
               requests_429 |-> 0, requests_5xx |-> 0,
               total_wait_time |-> Zero, adaptive_adjustments |-> 0]
  /\ UNCHANGED <<clock, buckets, created, result, sem, asem, pc, wait_time,
                 sleep_time, started, responses, granted, burstClean,
                 grantNo, sawEmpty, window, callerVars>>

\* The counters a caller reads from the object get_stats returned: those of
\* self._stats if it was handed that object itself.
SnapshotCounters == IF snapshot.live THEN stats ELSE snapshot.val

\* The caller keeps the result of the should_retry call it has just made.
Remember ==
  /\ result.op = "should_retry"
  /\ memo = NoResult
  /\ memo' = result
  /\ UNCHANGED <<clock, buckets, created, result, sem, asem, stats, pc,
                 wait_time, sleep_time, started, responses, granted,
                 burstClean, grantNo, sawEmpty, window, req, snapshot,
                 handoverVars, pair,
                 auxVars>>

\* The retry loop of a caller (tests/integration/test_rate_limiter.py,
\* test_5xx_max_retries): each response of the request is handed to
\* handle_response_headers, then should_retry(status, attempt, "GET")
\* decides; on a retry the clock is advanced by the returned wait and attempt
\* is incremented.
\* The 503 responses the loop receives (attempt is left at its default).
LoopResponses(now) == {h \in ErrorResponses(now) : h.attempt = 0}

\* The caller sends the request for the first time.
Send ==
  /\ req = NoRequest
  /\ req' = [req EXCEPT !.pc = "respond"]
  /\ UNCHANGED <<clock, buckets, created, result, sem, asem, stats, pc,
                 wait_time, sleep_time, started, responses, granted,
                 burstClean, grantNo, sawEmpty, window, memo, snapshot,
                 handoverVars, pair,
                 auxVars>>

\* wait_time = rate_limiter.handle_response_headers(request_spec, headers,
\* response.status); an exception it raises ends the loop.
LoopRespond(h) ==
  /\ req.pc = "respond"
  /\ HandleOutside(h)
  /\ req' = [req EXCEPT
               !.pc = IF result'.val.kind = "raise" THEN "raised"
                      ELSE "decide",
               !.status = h.status]
  /\ UNCHANGED <<clock, memo, snapshot, handoverVars, pair,
                 auxVars>>

\* should_retry = rate_limiter.should_retry(response.status, attempt, "GET");
\* if not should_retry: break; fake_time.advance(wait_time or 1.0);
\* attempt += 1
LoopDecide ==
  /\ req.pc = "decide"
  /\ LET retry == ShouldRetry(req.status, req.attempt, "GET")
         wait == IF result.val.kind = "wait" /\ result.val.wait # Zero
                   THEN result.val.wait ELSE RInt(1)
     IN  /\ result' = [op |-> "should_retry",
                       arg |-> <<req.status, req.attempt, "GET">>,
                       val |-> retry]
         /\ IF retry
              THEN /\ clock' = RAdd(clock, wait)
                   /\ req' = [req EXCEPT !.pc = "respond",
                                         !.attempt = @ + 1]
              ELSE /\ req' = [req EXCEPT !.pc = "failed"]
                   /\ UNCHANGED clock
  /\ UNCHANGED <<buckets, created, sem, asem, stats, pc, wait_time,
                 sleep_time, started, responses, granted, burstClean,
                 grantNo, sawEmpty, window, memo, snapshot, handoverVars, pair,
                 auxVars>>

\* Caller c takes its next step on both limiters of the pair: on one inside
\* acquire, on the other inside acquire_async.
PairStep(c) ==
  /\ \A m \in {"sync", "async"} :
       /\ pair[m].pc[c] = "idle" => pair[m].started < MaxRequests
       /\ pair[m].pc[c] = "sleep"
            => RLt(pair[m].wait_time[c], Ticks(MaxSleeps))
  /\ pair' = [sync |-> SyncStep(pair.sync, c, clock),
              async |-> AsyncStep(pair.async, c, clock)]
  /\ pair' # pair
  /\ UNCHANGED <<clock, buckets, created, result, sem, asem, stats, pc,
                 wait_time, sleep_time, started, responses, granted,
                 burstClean, grantNo, sawEmpty, window, req, memo, snapshot,
                 handoverVars, auxVars>>

\* The responses handed to the pair: 503 with each set of rate-limit
\* headers, the jitter draw fixed.
PairResponses(now) == {h \in LoopResponses(now) : h.jf = RInt(1)}

\* Both limiters of the pair are handed the same response.
PairRespond(h) ==
  /\ responses < MaxResponses
  /\ responses' = responses + 1
  /\ pair' = [sync |-> RespondOn(pair.sync, h, clock),
              async |-> RespondOn(pair.async, h, clock)]
  /\ UNCHANGED <<clock, buckets, created, result, sem, asem, stats, pc,
                 wait_time, sleep_time, started, granted, burstClean,
                 grantNo, sawEmpty, window, req, memo, snapshot,
                 handoverVars, auxVars>>

\* A RateLimiter(exchange_config, time_provider) before its first use.
Init ==
  /\ clock = Zero
  /\ buckets = <<>>
  /\ created = Zero
  /\ result = NoResult
  /\ LimiterInit

AcquireStep(c) ==
  \/ Start(c)
  \/ Enter(c)
  \/ TryConsume(c)
  \/ TimeUntil(c)
  \/ Sleep(c)
  \/ UpdateStats(c)
  \/ Emit(c)
  \/ Release(c)
  \/ Raise(c)

\* The steps of an acquire whose counter update and handover do not fail.
HandoverStep(c) ==
  \/ Start(c)
  \/ Enter(c)
  \/ TryConsume(c)
  \/ TimeUntil(c)
  \/ Sleep(c)
  \/ UpdateStats(c)
  \/ Emit(c)
  \/ Release(c)
  \/ RaiseInWaitOrBody(c)

\* Concurrent callers of acquire and acquire_async, no response handled.
HandoverNext ==
  \/ \E c \in Callers : HandoverStep(c)
  \/ \E k \in 1..MaxAdvance : Advance(k)

SpecHandover == Init /\ [][HandoverNext]_vars

\* The limiter with no response handled: no header-driven rate change.
SteadyNext ==
  \/ \E c \in Callers : AcquireStep(c)
  \/ \E k \in 1..MaxAdvance : Advance(k)

SpecSteady == Init /\ [][SteadyNext]_vars

\* A response handled by a caller inside its acquire scope.
ResponseStep ==
  \E c \in {d \in Callers : pc[d] = "body" /\ responses < MaxResponses} :
    \E h \in Responses(clock) : HandleResponse(c, h)

\* A 200 response handled outside any acquire scope.
OutsideResponseStep ==
  /\ responses < MaxOutside
  /\ \E h \in SuccessResponses(clock) : HandleResponseOutside(h)

\* A response of any status handled outside any acquire scope.
ClassifyStep ==
  /\ responses < MaxOutside
  /\ \E h \in ClassifyResponses(clock) : HandleResponseOutside(h)

\* Callers that acquire, handle the response inside the scope and release.
Next ==
  \/ \E c \in Callers : AcquireStep(c)
  \/ \E k \in 1..MaxAdvance : Advance(k)
  \/ ResponseStep

Spec == Init /\ [][Next]_vars

\* 200 responses handled one after another with no acquire in between.
ResponsesNext ==
  \/ OutsideResponseStep
  \/ \E k \in 1..MaxAdvance : Advance(k)

SpecResponses == Init /\ [][ResponsesNext]_vars

\* Responses of every status handled one after another, each declaring its
\* reset and its Retry-After date relative to the time it is handled at,
\* and should_retry asked in between.
ClassifyNext ==
  \/ ClassifyStep
  \/ \E status_code \in {200, 429, 503}, attempt \in Attempts,
        method \in Methods :
        ShouldRetryCall(status_code, attempt, method)

SpecClassify == Init /\ [][ClassifyNext]_vars

\* Two limiters driven by the same clock advances, acquire steps, releases
\* and responses, one through acquire and one through acquire_async.
PairNext ==
  \/ \E c \in PairCallers : PairStep(c)
  \/ \E k \in 1..MaxAdvance : Advance(k)
  \/ \E h \in PairResponses(clock) : PairRespond(h)

SpecPair == Init /\ [][PairNext]_vars

\* _calculate_backoff on its own, with and without jitter.
BackoffNext ==
  \E attempt \in BackoffAttempts, jitter \in BOOLEAN,
     jf \in JitterFactors :
     CalculateBackoffCall(attempt, jitter, jf)

SpecBackoff == Init /\ [][BackoffNext]_vars

\* should_retry on its own, over every argument of the sets above.
ShouldRetryNext ==
  \E status_code \in RetryStatuses, attempt \in RetryAttempts,
     method \in AllMethods :
     ShouldRetryCall(status_code, attempt, method)

SpecShouldRetry == Init /\ [][ShouldRetryNext]_vars

\* One caller acquiring and handling 503 responses without rate-limit
\* headers while the statistics are read and reset.
StatsResponses(now) ==
  {h \in LoopResponses(now) : ~IsNum(h.reset) /\ h.jf = RInt(1)}
StatsNext ==
  \/ AcquireStep(1)
  \/ \E h \in StatsResponses(clock) : HandleResponseOutside(h)
  \/ GetStats
  \/ ResetStats

SpecStats == Init /\ [][StatsNext]_vars

\* should_retry called between the responses of failed requests, one of its
\* results kept by the caller.
PureAttempts == {0, MaxRetries5xx - 1, MaxRetries5xx}
PureNext ==
  \/ \E h \in LoopResponses(clock) : HandleResponseOutside(h)
  \/ \E status_code \in {429, 503}, attempt \in PureAttempts,
        method \in {"GET", "POST"} :
        ShouldRetryCall(status_code, attempt, method)
  \/ Remember

SpecPure == Init /\ [][PureNext]_vars

\* One request answered by 503 responses only and retried by its caller.
RetryNext ==
  \/ Send
  \/ \E h \in LoopResponses(clock) : LoopRespond(h)
  \/ LoopDecide

SpecRetry == Init /\ [][RetryNext]_vars

\* Two callers and header-carrying 200 responses that race for the first
\* use of the limiter: whichever comes first creates the bucket.
FirstUseCallers == {1, 2}
FirstUseResponses(now) ==
  {h \in SuccessResponses(now) :
     /\ h.limit \in {AbsentI, NumI(2 * SteadyRate)}
     /\ h.remaining = NumI(2 * SteadyRate - 2)
     /\ h.reset = NumF(RAdd(now, RInt(1)))}
FirstUseNext ==
  \/ \E c \in FirstUseCallers : AcquireStep(c)
  \/ \E h \in FirstUseResponses(clock) :
       responses < MaxResponses /\ HandleResponseOutside(h)

SpecFirstUse == Init /\ [][FirstUseNext]_vars

\* ------------------------------------------- one bucket, statement by
\* statement: consume and peek hold TokenBucket._lock around _refill, while
\* _apply_adaptive_rate assigns bucket.rate directly.
mainVars == <<clock, buckets, created, result, sem, asem, stats, pc,
              wait_time, sleep_time, started, responses, granted, burstClean,
              grantNo, sawEmpty, window, req, memo, snapshot, handoverVars,
              pair>>
raceFrame == <<mainVars, recorder, locking>>

\* The responses the responder thread handles: a limit of R or 2R, a
\* healthy remaining budget and the reset one second ahead.
RaceResponses(now) ==
  {h \in SuccessResponses(now) :
     /\ h.limit \in {NumI(SteadyRate), NumI(2 * SteadyRate)}
     /\ h.remaining = NumI(2 * SteadyRate - 2)
     /\ h.reset = NumF(RAdd(now, RInt(1)))}

\* with self._lock: entered by consume (a consumer between calls) or by
\* peek (the responder after _apply_adaptive_rate).
RaceLock(t) ==
  /\ racing.pc[t] = IF t \in RaceConsumers THEN "idle" ELSE "peek"
  /\ racing.holder = 0
  /\ racing' = [racing EXCEPT !.holder = t, !.pc[t] = "now", !.actor = t]
  /\ UNCHANGED raceFrame

\* _refill: now = self.time_provider.now(); elapsed = now -
\* self._last_refill; new_tokens = elapsed * self.rate
RaceRefillRead(t) ==
  /\ racing.pc[t] = "now"
  /\ racing' =
       [racing EXCEPT
          !.now[t] = clock,
          !.new_tokens[t] =
             RMul(RSub(clock, racing.bucket.last_refill), racing.bucket.rate),
          !.pc[t] = "tokens", !.actor = t]
  /\ UNCHANGED raceFrame

\* _refill: self._tokens = min(self.capacity, self._tokens + new_tokens)
RaceRefillTokens(t) ==
  /\ racing.pc[t] = "tokens"
  /\ racing' =
       [racing EXCEPT
          !.bucket.tokens =
             RMin(RInt(racing.bucket.capacity),
                  RAdd(@, racing.new_tokens[t])),
          !.pc[t] = "last", !.actor = t]
  /\ UNCHANGED raceFrame

\* _refill: self._last_refill = now
RaceRefillLast(t) ==
  /\ racing.pc[t] = "last"
  /\ racing' =
       [racing EXCEPT
          !.bucket.last_refill = racing.now[t],
          !.pc[t] = IF t \in RaceConsumers THEN "take" ELSE "unlock",
          !.actor = t]
  /\ UNCHANGED raceFrame

\* consume: if self._tokens >= tokens: self._tokens -= tokens
RaceTake(t) ==
  /\ racing.pc[t] = "take"
  /\ racing' =
       [racing EXCEPT
          !.bucket.tokens = IF RLe(RInt(1), @) THEN RSub(@, RInt(1)) ELSE @,
          !.pc[t] = "unlock", !.actor = t]
  /\ UNCHANGED raceFrame

\* The with block of consume or peek is left.
RaceUnlock(t) ==
  /\ racing.pc[t] = "unlock"
  /\ racing' = [racing EXCEPT !.holder = 0, !.pc[t] = "idle", !.actor = t]
  /\ UNCHANGED raceFrame

\* _apply_adaptive_rate up to its test: new_rate = limit / time_until_reset,
\* abs(new_rate - bucket.rate) / bucket.rate > 0.1
RaceAdaptRead(h) ==
  /\ racing.pc[RaceResponder] = "idle"
  /\ racing' =
       [racing EXCEPT
          !.new_rate = AdaptiveCandidate(h, clock),
          !.pc[RaceResponder] =
             IF SignificantlyDifferent(AdaptiveCandidate(h, clock),
                                       racing.bucket.rate)
               THEN "write" ELSE "peek",
          !.actor = RaceResponder]
  /\ UNCHANGED raceFrame

\* _apply_adaptive_rate: bucket.rate = new_rate (no lock is taken); the
\* response's telemetry event then reads bucket.peek().
RaceAdaptWrite ==
  /\ racing.pc[RaceResponder] = "write"
  /\ racing' =
       [racing EXCEPT
          !.bucket.rate = racing.new_rate,
          !.pc[RaceResponder] = "peek", !.actor = RaceResponder]
  /\ UNCHANGED raceFrame

RaceStep(t) ==
  \/ RaceLock(t)
  \/ RaceRefillRead(t)
  \/ RaceRefillTokens(t)
  \/ RaceRefillLast(t)
  \/ RaceTake(t)
  \/ RaceUnlock(t)

\* Threads consuming from the bucket while responses adapt its rate.
RaceNext ==
  \/ \E t \in RaceThreads : RaceStep(t)
  \/ \E h \in RaceResponses(clock) : RaceAdaptRead(h)
  \/ RaceAdaptWrite
  \/ \E k \in 1..MaxAdvance : Advance(k)

SpecRace == Init /\ [][RaceNext]_vars

\* ------------------------------------------------- TelemetryRecorder
recFrame == <<mainVars, racing, locking>>

\* The decision of the k-th event thread t records: the threads alternate
\* between the two decisions, out of step with each other.
DecisionOf(t, k) == IF (t + k) % 2 = 0 THEN "allow" ELSE "throttle"

\* record(event) called by thread t with its next event: the event is
\* formatted and logged.
Record(t) ==
  /\ recorder.pc[t] = "idle"
  /\ recorder.done[t] < MaxEvents
  /\ recorder' =
       [recorder EXCEPT
          !.pending[t] = DecisionOf(t, recorder.done[t] + 1),
          !.pc[t] = "lock"]
  /\ UNCHANGED recFrame

\* Mutant of RecLock: _stats_lock excludes nobody.
RecLockUnguarded(t) ==
  /\ recorder.pc[t] = "lock"
  /\ recorder' = [recorder EXCEPT !.stats_holder = t, !.pc[t] = "read"]
  /\ UNCHANGED recFrame

\* if self.collect_stats: with self._stats_lock:
RecLock(t) ==
  /\ recorder.pc[t] = "lock"
  /\ recorder.stats_holder = 0
  /\ recorder' = [recorder EXCEPT !.stats_holder = t, !.pc[t] = "read"]
  /\ UNCHANGED recFrame

\* self._stats.total_requests += 1: the counter is read
RecRead(t) ==
  /\ recorder.pc[t] = "read"
  /\ recorder' = [recorder EXCEPT !.read[t] = recorder.total_requests,
                                  !.pc[t] = "write"]
  /\ UNCHANGED recFrame

\* ... and written back; decisions_by_type[decision] is incremented and the
\* with block is left.
RecWrite(t) ==
  /\ recorder.pc[t] = "write"
  /\ recorder' =
       [recorder EXCEPT
          !.total_requests = recorder.read[t] + 1,
          !.decisions_by_type[recorder.pending[t]] = @ + 1,
          !.stats_holder = 0,
          !.pc[t] = "append"]
  /\ UNCHANGED recFrame

\* with self._events_lock: self._events.append(event); record returns.
RecAppend(t) ==
  /\ recorder.pc[t] = "append"
  /\ recorder' =
       [recorder EXCEPT
          !.events = Append(@, [thread |-> t, seq |-> recorder.done[t] + 1,
                                decision |-> recorder.pending[t]]),
          !.done[t] = @ + 1,
          !.pc[t] = "idle"]
  /\ UNCHANGED recFrame

\* TelemetryRecorder.get_events: a copy of the list.
GetEvents == recorder.events

\* Threads that each record MaxEvents events on one recorder.
RecorderNext ==
  \E t \in RecThreads :
    \/ Record(t)
    \/ RecLock(t)
    \/ RecRead(t)
    \/ RecWrite(t)
    \/ RecAppend(t)

SpecRecorder == Init /\ [][RecorderNext]_vars

\* ------------------------------------------------ locks and the gate
lockFrame == <<mainVars, racing, recorder>>

\* The lock operations of a call, in program order.
Lock(n) == <<"lock", n>>
Unlock(n) == <<"unlock", n>>
\* FakeTimeProvider.now(): with self._lock
ClockNow == <<Lock("clock"), Unlock("clock")>>
\* consume, peek and time_until_tokens: with self._lock: self._refill(),
\* which reads the clock inside the bucket's lock.
BucketCall == <<Lock("bucket")>> \o ClockNow \o <<Unlock("bucket")>>
\* with self._stats_lock: ...
StatsBlock == <<Lock("stats"), Unlock("stats")>>
\* create_event(tokens_available=bucket.peek()); get_recorder().record(event)
EmitEvent == BucketCall \o <<Lock("events"), Unlock("events")>>
\* _get_or_create_bucket after its lock is taken: TokenBucket.__init__ reads
\* the clock when the bucket does not exist yet.
GetOrCreateRest(exists) ==
  (IF exists THEN <<>> ELSE ClockNow) \o <<Unlock("bucket_map")>>

\* What a thread does inside its scope: handle_response_headers with
\* rate-limit headers on a 200 and on a 429 response, get_stats, reset_stats.
ScopeCalls == {"handle_200", "handle_429", "get_stats", "reset_stats"}
ScopeCall(op) ==
  IF op \in {"get_stats", "reset_stats"} THEN StatsBlock
  ELSE <<Lock("bucket_map"), Unlock("bucket_map")>>
         \o ClockNow \o StatsBlock \o EmitEvent
         \o (IF op = "handle_429"
               THEN StatsBlock \o ClockNow \o EmitEvent
               ELSE <<>>)

\* The next lock operation of thread t is an acquisition of a free lock.
LockTake(t) ==
  /\ locking.todo[t] # <<>>
  /\ Head(locking.todo[t])[1] = "lock"
  /\ locking.held[Head(locking.todo[t])[2]] = 0
  /\ locking' = [locking EXCEPT !.held[Head(locking.todo[t])[2]] = t,
                                !.todo[t] = Tail(@)]
  /\ UNCHANGED lockFrame

\* The next lock operation of thread t is a release.
LockRelease(t) ==
  /\ locking.todo[t] # <<>>
  /\ Head(locking.todo[t])[1] = "unlock"
  /\ locking' = [locking EXCEPT !.held[Head(locking.todo[t])[2]] = 0,
                                !.todo[t] = Tail(@)]
  /\ UNCHANGED lockFrame

\* acquire called: _get_or_create_bucket takes _bucket_lock.
LockCall(t) ==
  /\ locking.phase[t] = "idle"
  /\ locking' = [locking EXCEPT !.phase[t] = "map",
                                !.todo[t] = <<Lock("bucket_map")>>]
  /\ UNCHANGED lockFrame

\* Inside _bucket_lock: the bucket is created if it is not there.
LockGetOrCreate(t) ==
  /\ locking.phase[t] = "map"
  /\ locking.todo[t] = <<>>
  /\ locking' = [locking EXCEPT !.phase[t] = "gate",
                                !.exists = TRUE,
                                !.todo[t] = GetOrCreateRest(locking.exists)]
  /\ UNCHANGED lockFrame

\* self._semaphore.acquire(), then the first bucket.consume(1)
LockEnter(t) ==
  /\ locking.phase[t] = "gate"
  /\ locking.todo[t] = <<>>
  /\ locking.permits > 0
  /\ locking' = [locking EXCEPT !.permits = @ - 1,
                                !.phase[t] = "consume",
                                !.todo[t] = BucketCall]
  /\ UNCHANGED lockFrame

\* consume returned: the token was granted (the statistics follow), or it
\* was not (time_until_tokens follows).
LockConsumed(t) ==
  /\ locking.phase[t] = "consume"
  /\ locking.todo[t] = <<>>
  /\ \E ok \in BOOLEAN :
       locking' = [locking EXCEPT
                     !.phase[t] = IF ok THEN "stats" ELSE "until",
                     !.todo[t] = IF ok THEN StatsBlock ELSE BucketCall]
  /\ UNCHANGED lockFrame

\* time.sleep(min(sleep_time, 0.1)), then consume again
LockSleep(t) ==
  /\ locking.phase[t] = "until"
  /\ locking.todo[t] = <<>>
  /\ locking' = [locking EXCEPT !.phase[t] = "consume",
                                !.todo[t] = BucketCall]
  /\ UNCHANGED lockFrame

\* The statistics are updated: the telemetry event follows.
LockEmit(t) ==
  /\ locking.phase[t] = "stats"
  /\ locking.todo[t] = <<>>
  /\ locking' = [locking EXCEPT !.phase[t] = "body", !.todo[t] = EmitEvent]
  /\ UNCHANGED lockFrame

\* Inside the scope: one of the limiter's calls is made.
LockScopeCall(t, op) ==
  /\ locking.phase[t] = "body"
  /\ locking.todo[t] = <<>>
  /\ locking' = [locking EXCEPT !.phase[t] = "leave",
                                !.todo[t] = ScopeCall(op)]
  /\ UNCHANGED lockFrame

\* Mutant of LockLeave: the finally block does not release the permit.
LockLeaveKeeping(t) ==
  /\ locking.phase[t] = "leave"
  /\ locking.todo[t] = <<>>
  /\ locking' = [locking EXCEPT !.phase[t] = "done"]
  /\ UNCHANGED lockFrame

\* finally: self._semaphore.release()
LockLeave(t) ==
  /\ locking.phase[t] = "leave"
  /\ locking.todo[t] = <<>>
  /\ locking' = [locking EXCEPT !.permits = @ + 1, !.phase[t] = "done"]
  /\ UNCHANGED lockFrame

LockStep(t) ==
  \/ LockTake(t)
  \/ LockRelease(t)
  \/ LockCall(t)
  \/ LockGetOrCreate(t)
  \/ LockEnter(t)
  \/ LockConsumed(t)
  \/ LockSleep(t)
  \/ LockEmit(t)
  \/ \E op \in ScopeCalls : LockScopeCall(t, op)
  \/ LockLeave(t)

\* Threads that each run acquire, one call inside the scope, and release.
LockingNext == \E t \in LockThreads : LockStep(t)

SpecLocking == Init /\ [][LockingNext]_vars

\* ------------------------------------------------------------- claims
\* The bucket under test or the limiter's only bucket.
TheBucket == buckets[Host]

\* Callers of one mode (acquire or acquire_async) inside the acquire scope.
Inside(sync) == {c \in Callers : IsSync(c) = sync /\ pc[c] \in InScope}

\* C1: for any number of concurrent callers of acquire (or of acquire_async)
\* and any interleaving, the callers inside the acquire scope at one time
\* never number more than max_concurrency.
C1_ConcurrencyBound ==
  /\ Cardinality(Inside(TRUE)) <= MaxConcurrency
  /\ Cardinality(Inside(FALSE)) <= MaxConcurrency

\* C1 witness: max_concurrency callers of a mode hold the gate while one
\* more caller of that mode waits at it.
C1_Witness ==
  \E c \in Callers :
    /\ pc[c] = "gate"
    /\ Cardinality(Inside(IsSync(c))) = MaxConcurrency
    /\ (IF IsSync(c) THEN sem ELSE asem) = 0

\* C2: free permits plus callers inside an acquire scope equal
\* max_concurrency in every state, every exit from the scope (normal or by
\* an exception in the token wait, the stats update, the telemetry step or
\* the caller's body) releases exactly one permit, and with every caller
\* finished the free permits are back at max_concurrency.
C2_PermitConservation ==
  /\ [](/\ sem + Cardinality(Inside(TRUE)) = MaxConcurrency
        /\ asem + Cardinality(Inside(FALSE)) = MaxConcurrency
        /\ (\A c \in Callers : pc[c] = "idle")
             => (sem = MaxConcurrency /\ asem = MaxConcurrency))
  /\ [][\A c \in Callers :
          (pc[c] \in InScope /\ pc'[c] \notin InScope)
            => IF IsSync(c)
                 THEN sem' = sem + 1 /\ asem' = asem
                 ELSE asem' = asem + 1 /\ sem' = sem]_vars

\* C2 witness: every caller has finished, one of them after its grant and
\* one by an exception raised before it was granted a token, and all the
\* permits are free.
C2_Witness ==
  /\ \A c \in Callers : pc[c] = "idle"
  /\ granted >= 1
  /\ started > granted
  /\ sem = MaxConcurrency
  /\ asem = MaxConcurrency

\* C3: with a non-decreasing clock and no header-driven rate change, the
\* acquires granted up to any time t number at most C + R * (t - t0) for a
\* bucket of capacity C and rate R created at t0; no token is granted twice:
\* while the clock has not advanced the grants and the tokens left add up
\* to C.
C3_RateBound ==
  Host \in DOMAIN buckets =>
    /\ RLe(RInt(granted),
           RAdd(RInt(TheBucket.capacity),
                RMul(TheBucket.rate, RSub(clock, created))))
    /\ clock = created
         => RAdd(RInt(granted), TheBucket.tokens) = RInt(TheBucket.capacity)

\* C3 witness: more acquires than the capacity have been granted and the
\* bound leaves room for less than one more.
C3_Witness ==
  /\ Host \in DOMAIN buckets
  /\ granted > Burst
  /\ RLt(RAdd(RInt(Burst), RMul(TheBucket.rate, RSub(clock, created))),
         RInt(granted + 1))

\* C4: over every sequence of refill, consume, peek and time_until_tokens
\* calls made with non-decreasing clock readings, 0 <= tokens <= capacity.
C4_TokensInRange ==
  /\ RLe(Zero, TheBucket.tokens)
  /\ RLe(TheBucket.tokens, RInt(TheBucket.capacity))

\* C4 witness: a peek at the end of the run, by when the elapsed time alone
\* credits the whole capacity, returned exactly the capacity.
C4_Witness ==
  /\ result.op = "peek"
  /\ clock = Ticks(MaxTicks)
  /\ TheBucket.last_refill = clock
  /\ result.val = RInt(Burst)
  /\ RLe(RInt(Burst), RMul(clock, TheBucket.rate))

\* C5: a refill made when the clock has not advanced or has moved back since
\* the last refill leaves the token level unchanged and never negative.
C5_NonPositiveElapsedAddsNothing ==
  [][(BucketPeek /\ RLe(clock, TheBucket.last_refill))
       => /\ buckets'[Host].tokens = TheBucket.tokens
          /\ RLe(Zero, buckets'[Host].tokens)]_vars

\* C6: consume(n), after its implicit refill, returns true and lowers the
\* level by exactly n when tokens >= n, and otherwise returns false and
\* leaves the refilled level unchanged.
C6_ConsumeContract ==
  [][\A n \in 1..MaxConsume :
       BucketConsume(n) =>
         LET level == Refill(TheBucket, clock).tokens
         IN  IF RLe(RInt(n), level)
               THEN /\ result'.val = TRUE
                    /\ buckets'[Host].tokens = RSub(level, RInt(n))
               ELSE /\ result'.val = FALSE
                    /\ buckets'[Host].tokens = level]_vars

\* C6 witness: a consume failed on a bucket that holds a positive level.
C6_Witness ==
  /\ result.op = "consume"
  /\ result.val = FALSE
  /\ TheBucket.last_refill = clock
  /\ RLt(Zero, TheBucket.tokens)
  /\ RLt(TheBucket.tokens, RInt(result.arg))

TokenPeriod == RDiv(RInt(1), TheBucket.rate)

\* The caller holds the (C+1)-th grant of a limiter whose first C grants
\* were made with no clock advance, and it met the empty bucket before the
\* clock moved.
HoldsGrantAfterBurst(c) ==
  /\ pc[c] \in Granted
  /\ grantNo[c] = Burst + 1
  /\ burstClean
  /\ sawEmpty[c]

DeclaresWindow(h) ==
  IsNum(h.limit) /\ IsNum(h.reset) /\ RLt(clock, h.reset[2])

\* The bucket a handle_response_headers call finds or creates.
BucketBefore == GetOrCreateBucket(buckets, clock)[Host]

\* What handle_response_headers does with response h when called now.
AfterResponse(h) ==
  HandleResponseHeaders(BucketBefore, stats, clock, h.status, h, h.jf)

\* C9 as stated: when a response declares limit, remaining and reset with
\* reset > now, handle_response sets the bucket's rate to
\* remaining / (reset - now) whenever that differs from the current rate by
\* more than 10%.
C9_AdaptiveFromRemaining ==
  [][\A h \in Responses(clock) :
       (DeclaresWindow(h) /\ IsNum(h.remaining) /\ HandleResponseOutside(h))
         => LET candidate == RDiv(RInt(h.remaining[2]), RSub(h.reset[2], clock))
                rate == BucketBefore.rate
            IN  RLt(RMul(Tenth, RAbs(rate)), RAbs(RSub(candidate, rate)))
                  => buckets'[Host].rate = candidate]_vars

\* C9 amended: when a response declares limit, remaining and reset with
\* reset > now, handle_response_headers sets the bucket's rate to
\* limit / (reset - now), not remaining / (reset - now), whenever the current
\* rate is positive and that differs from it by more than 10%, and otherwise
\* leaves the rate as it is; on a current rate of 0 the call raises
\* ZeroDivisionError. Stated of the call made in any reachable state.
C9_AdaptiveFromLimit ==
  \A h \in Responses(clock) :
    (DeclaresWindow(h) /\ IsNum(h.remaining))
      => LET candidate == RDiv(RInt(h.limit[2]), RSub(h.reset[2], clock))
             rate == BucketBefore.rate
         IN  /\ AfterResponse(h).bucket.rate =
                  IF /\ RLt(Zero, rate)
                     /\ RLt(RMul(Tenth, rate), RAbs(RSub(candidate, rate)))
                    THEN candidate ELSE rate
             /\ rate = Zero <=> AfterResponse(h).ret = RetRaise

\* C9 witness: the first response declared limit 2R, a remaining other than
\* 0 and a reset one second ahead, and the rate of the new bucket is 2R, the
\* limit over the window, with one adjustment counted.
C9_Witness ==
  /\ responses = 1
  /\ result.op = "handle_response"
  /\ result.val = RetNone
  /\ result.arg = 200
  /\ TheBucket.rate = RInt(2 * SteadyRate)
  /\ stats.adaptive_adjustments = 1

\* C10: when a response declares limit and reset with reset > now,
\* handle_response_headers sets the bucket's rate to limit / (reset - now)
\* whenever that differs from the current rate by more than 10%, whatever
\* the remaining value.
C10_AdaptiveFromLimitAlways ==
  [][\A h \in Responses(clock) :
       (DeclaresWindow(h) /\ HandleResponseOutside(h))
         => LET candidate == RDiv(RInt(h.limit[2]), RSub(h.reset[2], clock))
                rate == BucketBefore.rate
            IN  RLt(RMul(Tenth, RAbs(rate)), RAbs(RSub(candidate, rate)))
                  => buckets'[Host].rate = candidate]_vars

\* C11: a handle_response_headers call replaces the bucket rate and counts
\* one adaptive adjustment if and only if the candidate rate
\* limit / (reset - now) differs from the current rate by more than 10% of
\* the current rate; otherwise the rate and adaptive_adjustments are both
\* left as they were.
C11_AdaptiveThreshold ==
  [][\A h \in Responses(clock) :
       (DeclaresWindow(h) /\ HandleResponseOutside(h))
         => LET candidate == RDiv(RInt(h.limit[2]), RSub(h.reset[2], clock))
                rate == BucketBefore.rate
            IN  IF RLt(RMul(Tenth, RAbs(rate)), RAbs(RSub(candidate, rate)))
                  THEN /\ buckets'[Host].rate = candidate
                       /\ stats'.adaptive_adjustments =
                            stats.adaptive_adjustments + 1
                  ELSE /\ buckets'[Host].rate = rate
                       /\ stats'.adaptive_adjustments =
                            stats.adaptive_adjustments]_vars

\* C12: after handle_response_headers has processed a response declaring
\* remaining = M and reset = T > now, the acquires granted between that
\* moment and time T never number more than M.
C12_BudgetNotOutpaced ==
  (window # NoWindow /\ RLt(clock, window.reset))
    => granted - window.grants <= window.remaining

\* C14: after a response declared remaining = 0 with reset = T > now, an
\* acquire that finds no token available before T waits
\* max(time_until_tokens(1), T - now).
C14_ExhaustionWindowHonoured ==
  [][\A c \in Callers :
       (/\ pc[c] = "until"
        /\ pc'[c] \in {"sleep", "consume"}
        /\ window.remaining = 0
        /\ RLt(clock, window.reset))
         => sleep_time'[c] = RMax(TimeUntilTokens(buckets[Host], 1, clock),
                                  RSub(window.reset, clock))]_vars

\* C13: when the headers of a response parse to remaining == 0 and a reset
\* value, handle_response_headers returns the wait max(0, reset - now) and
\* adds exactly one to requests_throttled, whatever the status code.
C13_ExhaustionDecision ==
  [][\A h \in ClassifyResponses(clock) :
       (/\ IsNum(h.remaining) /\ h.remaining[2] = 0
        /\ IsNum(h.reset)
        /\ HandleResponseOutside(h))
         => /\ result'.val = RetWait(RMax(Zero, RSub(h.reset[2], clock)))
            /\ stats'.requests_throttled = stats.requests_throttled + 1]_vars

\* The exhaustion test of handle_response_headers passes: the headers give
\* a reset, and remaining is 0 or not given.
DeclaresExhaustion(h) ==
  IsNum(h.reset) /\ (IsNum(h.remaining) => h.remaining[2] = 0)

\* C15 as stated: for every 429 response that carries a Retry-After value v
\* in seconds, handle_response_headers returns a wait of exactly v, whatever
\* other headers the response carries.
C15_RetryAfterHonoured ==
  [][\A h \in ClassifyResponses(clock) :
       (/\ h.status = 429
        /\ h.retry_after[1] = "num"
        /\ HandleResponseOutside(h))
         => result'.val = RetWait(h.retry_after[2])]_vars

\* C15 amended: for every 429 response that carries a Retry-After value v
\* in seconds, handle_response_headers returns a wait of exactly v unless
\* its headers give a reset together with remaining 0 or no remaining: then
\* the exhaustion decision comes first and the call returns
\* max(0, reset - now); on a bucket whose rate is 0 a response declaring
\* limit and reset > now raises ZeroDivisionError instead.
C15_RetryAfterUnlessExhausted ==
  \A h \in ClassifyResponses(clock) :
    (h.status = 429 /\ h.retry_after[1] = "num")
      => AfterResponse(h).ret =
           IF DeclaresWindow(h) /\ BucketBefore.rate = Zero THEN RetRaise
           ELSE IF DeclaresExhaustion(h)
             THEN RetWait(RMax(Zero, RSub(h.reset[2], clock)))
           ELSE RetWait(h.retry_after[2])

\* C15 witness: a 429 was handled, counted, and answered with the wait of 2
\* seconds that only its Retry-After header names.
C15_Witness ==
  /\ result.op = "handle_response"
  /\ result.arg = 429
  /\ result.val = RetWait(RInt(2))
  /\ stats.requests_429 >= 1

\* C16: every handle_response_headers call with status 429 adds exactly one
\* to requests_429 and every call with a status in 500..599 adds exactly one
\* to requests_5xx, for every header map; a call with any other status
\* changes neither counter.
C16_FailureCounters ==
  [][\A h \in ClassifyResponses(clock) :
       HandleResponseOutside(h)
         => /\ stats'.requests_429 =
                 stats.requests_429 + (IF h.status = 429 THEN 1 ELSE 0)
            /\ stats'.requests_5xx =
                 stats.requests_5xx
                   + (IF 500 <= h.status /\ h.status <= 599 THEN 1 ELSE 0)]_vars

\* The response carries none of the rate-limit headers.
NoRateHeaders(h) ==
  ~IsNum(h.limit) /\ ~IsNum(h.remaining) /\ ~IsNum(h.reset)

\* The failure is backed off: a 5xx, or a 429 without a usable Retry-After.
BackedOff(h) ==
  \/ 500 <= h.status /\ h.status <= 599
  \/ h.status = 429 /\ h.retry_after[1] \notin {"num", "date"}

\* C17: for the k-th consecutive failure of a request (a 429 without a
\* usable Retry-After, or a 5xx), the wait handle_response_headers returns
\* is min(base * 2^k, max) times the jitter factor, so that successive
\* failures are backed off by 1, 2, 4, ... seconds.
C17_BackoffGrows ==
  [][\A h \in ClassifyResponses(clock) :
       (BackedOff(h) /\ NoRateHeaders(h) /\ HandleResponseOutside(h))
         => result'.val = RetWait(CalculateBackoff(h.attempt, h.jf))]_vars

\* The wait is strictly positive and within the jitter band of the base
\* backoff, base * [0.75, 1.25].
InBaseBand(ret) ==
  /\ ret.kind = "wait"
  /\ RLt(Zero, ret.wait)
  /\ RLe(RMul(Rat(3, 4), RInt(BaseBackoff)), ret.wait)
  /\ RLe(ret.wait, RMul(Rat(5, 4), RInt(BaseBackoff)))

C19_WaitNonNegative ==
  (result.op = "handle_response" /\ result.val.kind = "wait")
    => RLe(Zero, result.val.wait)

\* C20 as stated: once a request has received more 5xx responses than the
\* maximum retry count, handle_response_headers returns a terminal "do not
\* retry" decision for it instead of another backoff wait.
C20_TerminalFromHandleResponse ==
  (/\ result.op = "handle_response"
   /\ 500 <= result.arg /\ result.arg <= 599
   /\ result.attempt >= MaxRetries5xx)
    => result.val.kind # "wait"

\* C20 amended: retry-bound exhaustion is reported by should_retry, not by
\* handle_response_headers: for a 5xx response handle_response_headers
\* returns a wait whatever the attempt number (the backoff of attempt 0, or
\* max(0, reset - now) when the headers give a reset with remaining 0 or no
\* remaining) or raises ZeroDivisionError on a zero rate, and
\* should_retry(status, attempt, method) returns False, a value and not an
\* error, for every 5xx once attempt has reached the maximum retry count.
C20_TerminalFromShouldRetry ==
  /\ \A h \in ErrorResponses(clock) :
       AfterResponse(h).ret =
         IF DeclaresWindow(h) /\ BucketBefore.rate = Zero THEN RetRaise
         ELSE IF DeclaresExhaustion(h)
           THEN RetWait(RMax(Zero, RSub(h.reset[2], clock)))
         ELSE RetWait(CalculateBackoff(0, h.jf))
  /\ (/\ result.op = "should_retry"
      /\ 500 <= result.arg[1] /\ result.arg[1] <= 599
      /\ result.arg[2] >= MaxRetries5xx)
       => result.val = FALSE

\* C20 witness: a 5xx was handled with the attempt number at the maximum
\* retry count and answered with a backoff wait, after an earlier 5xx.
C20_Witness ==
  /\ result.op = "handle_response"
  /\ result.arg = 503
  /\ result.attempt = MaxRetries5xx
  /\ InBaseBand(result.val)
  /\ stats.requests_5xx >= 2

\* C21: a caller that, for a GET request answered only by 5xx responses,
\* calls handle_response_headers then should_retry(status, attempt, "GET")
\* and increments attempt after each retry never makes more than 3 retries,
\* and its loop ends at the fourth response, after exactly 3 retries, by
\* should_retry's refusal.
C21_BoundedRetryLoop ==
  /\ req.attempt <= MaxRetries5xx
  /\ req.pc \in {"failed", "raised"}
       => /\ req.pc = "failed"
          /\ req.attempt = MaxRetries5xx
          /\ responses = MaxRetries5xx + 1

\* The spellings of the idempotent methods GET, HEAD, PUT, DELETE and OPTIONS
\* among the methods should_retry is called with.
IdempotentSpellings ==
  {"GET", "get", "HEAD", "head", "PUT", "Put", "DELETE", "OPTIONS",
   "options"}

\* C22: should_retry(status, attempt, method) is true when status is 429,
\* whatever the attempt and the method; for a status in 500..599 it is true
\* exactly when the method is, in any letter case, one of GET, HEAD, PUT,
\* DELETE, OPTIONS and attempt < 3; it is false for every other status.
C22_ShouldRetryClassification ==
  result.op = "should_retry" =>
    LET status == result.arg[1]
        attempt == result.arg[2]
        method == result.arg[3]
    IN  result.val <=>
          \/ status = 429
          \/ /\ status >= 500
             /\ status <= 599
             /\ method \in IdempotentSpellings
             /\ attempt < 3

\* A 5xx for a GET spelt in lower case is retried at attempt 2.
C22_Witness ==
  /\ result.op = "should_retry"
  /\ result.arg = <<599, 2, "get">>
  /\ result.val = TRUE

\* C23: should_retry is pure: a call leaves the statistics, every bucket,
\* the clock, the declared window and the free permits unchanged, and it
\* returns what an earlier call with the same arguments returned, whatever
\* responses were handled in between.
C23_ShouldRetryPure ==
  [][result'.op = "should_retry" =>
       /\ UNCHANGED <<clock, buckets, created, stats, sem, asem, pc,
                      started, responses, granted, window>>
       /\ (memo'.op = "should_retry" /\ memo'.arg = result'.arg)
            => result'.val = memo'.val]_vars

\* A call is repeated with the arguments of a kept call after a 503 was
\* counted.
C23_Witness ==
  /\ result.op = "should_retry"
  /\ memo.op = "should_retry"
  /\ memo.arg = <<503, MaxRetries5xx - 1, "GET">>
  /\ result.arg = memo.arg
  /\ stats.requests_5xx > 0

\* C24: handle_response_headers with a status that is neither 429 nor 5xx,
\* and headers that do not declare exhaustion (remaining == 0 with a reset),
\* returns "no wait"; the limiter keeps no retry state, so a later failure is
\* backed off as a first failure.
C24_SuccessNoWait ==
  [][\A h \in SuccessResponses(clock) :
       (/\ ~(IsNum(h.reset) /\ IsNum(h.remaining) /\ h.remaining[2] = 0)
        /\ HandleResponseOutside(h))
         => result'.val = RetNone]_vars

\* C25: the six counters read from a snapshot get_stats returned never
\* change afterwards, whatever acquire, handle_response_headers or
\* reset_stats steps follow; and right after reset_stats every counter that
\* get_stats copies is zero.
C25_SnapshotIsCopy ==
  [][/\ (snapshot.taken /\ ~GetStats)
          => SnapshotCounters' = SnapshotCounters
     /\ ResetStats
          => /\ stats'.requests_total = 0
             /\ stats'.requests_throttled = 0
             /\ stats'.requests_429 = 0
             /\ stats'.requests_5xx = 0
             /\ stats'.total_wait_time = Zero
             /\ stats'.adaptive_adjustments = 0]_vars

\* A snapshot taken after a grant is held while the statistics have been
\* reset and have counted a 503 since.
C25_Witness ==
  /\ snapshot.taken
  /\ snapshot.val.requests_total = 1
  /\ stats.requests_total = 0
  /\ stats.requests_5xx = 1

\* The callers whose grant is counted and whose guard is not yet yielded.
Counted == {c \in Callers : pc[c] = "telemetry"}

\* The number of members of a set of callers whose wait_time is positive.
Waited(cs) == Cardinality({c \in cs : RLt(Zero, wait_time[c])})

\* The sum of wait_time over a set of callers.
RECURSIVE WaitOfCallers(_)
WaitOfCallers(cs) ==
  IF cs = {} THEN Zero
  ELSE LET c == CHOOSE d \in cs : TRUE
       IN  RAdd(wait_time[c], WaitOfCallers(cs \ {c}))

\* The sum of wait_time over a sequence of guards.
RECURSIVE WaitOfGuards(_)
WaitOfGuards(gs) ==
  IF gs = <<>> THEN Zero
  ELSE RAdd(Head(gs).wait_time, WaitOfGuards(Tail(gs)))

\* C26: whatever the interleaving of the callers, requests_total is the
\* number of acquires granted (guards yielded, and grants counted whose
\* guard is about to be yielded), requests_throttled is the number of those
\* whose wait_time is > 0 and total_wait_time is the sum of their wait_time.
C26_NoLostUpdates ==
  /\ stats.requests_total = Len(guards) + Cardinality(Counted)
  /\ stats.requests_throttled =
       Cardinality({i \in 1..Len(guards) : RLt(Zero, guards[i].wait_time)})
         + Waited(Counted)
  /\ stats.total_wait_time =
       RAdd(WaitOfGuards(guards), WaitOfCallers(Counted))

\* Two guards have been yielded, one of them after a wait, while both
\* callers were inside acquire at once.
C26_Witness ==
  /\ Len(guards) = 2
  /\ \E i \in 1..2 : RLt(Zero, guards[i].wait_time)
  /\ \E i \in 1..2 : guards[i].wait_time = Zero
  /\ Cardinality({c \in Callers : pc[c] = "body"}) = 2

\* C27: every acquire whose token was consumed and whose guard was yielded
\* has recorded exactly one telemetry event, recorded after the consume and
\* no later than the yield; the event's decision is throttle exactly when the
\* guard's wait_time is > 0 and allow otherwise, its sleep_s is the guard's
\* wait_time, and an acquire that was not granted has recorded none.
C27_OneEventPerGrant ==
  /\ Len(events) = Len(guards)
  /\ Len(events) =
       granted
         - Cardinality({c \in Callers : pc[c] \in {"stats", "telemetry"}})
  /\ \A i \in 1..Len(events) :
       /\ events[i].grant = guards[i].grant
       /\ events[i].grant \in 1..granted
       /\ events[i].sleep_s = guards[i].wait_time
       /\ events[i].decision =
            IF RLt(Zero, guards[i].wait_time) THEN "throttle" ELSE "allow"
       /\ \A j \in 1..Len(events) :
            events[j].grant = events[i].grant => j = i
  /\ \A c \in Callers :
       /\ pc[c] = "body"
            => \E i \in 1..Len(events) : events[i].grant = grantNo[c]
       /\ pc[c] \in {"gate", "consume", "until", "sleep", "stats", "telemetry"}
            => \A i \in 1..Len(events) : events[i].grant # grantNo[c]

\* One acquire was granted at once and one after a wait of one sleep.
C27_Witness ==
  /\ Len(events) = 2
  /\ events[1].decision = "allow"
  /\ events[2].decision = "throttle"
  /\ events[2].sleep_s = Tenth

C29_HeadersNeverFatal ==
  result.op = "handle_response" => result.val # RetRaise

\* C30: without jitter the backoff for attempt k is exactly
\* min(base * 2^k, max) with base 1 and max 60: 1, 2, 4, 8, 16, 32 for
\* k = 0..5 and the ceiling 60 for every larger attempt.
C30_BackoffDoublesToCeiling ==
  (result.op = "calculate_backoff" /\ result.arg[2] = FALSE)
    => LET k == result.arg[1]
       IN  result.val = RetWait(RInt(IF k <= 5 THEN Pow2(k) ELSE 60))

\* C31: after any sequence of handle_response_headers calls with integer
\* limit, remaining and reset values, and clock advances in between, the
\* bucket has rate > 0 and its token level is not negative.
C31_RatePositiveTokensNonNegative ==
  Host \in DOMAIN buckets
    => /\ RLt(Zero, buckets[Host].rate)
       /\ RLe(Zero, buckets[Host].tokens)

\* C32: a response whose remaining header is absent or non-numeric, with a
\* status that is neither 429 nor 5xx, returns "no wait" and leaves
\* requests_throttled as it was, whatever limit and reset it carries.
C32_WaitNeedsDeclaredZero ==
  [][\A h \in SuccessResponses(clock) :
       (~IsNum(h.remaining) /\ HandleResponseOutside(h))
         => /\ result'.val = RetNone
            /\ stats'.requests_throttled = stats.requests_throttled]_vars

\* C33: a limiter starts with no bucket and never holds a bucket under a key
\* other than the configured host; the first acquire or
\* handle_response_headers creates the bucket full (tokens == capacity ==
\* burst, rate == steady_rate unless that very response adapts it); once it
\* exists it is never removed or replaced: a later acquire obtains the
\* bucket as it is, and a response leaves its capacity and, with no time
\* elapsed since the last refill, its tokens.
C33_BucketCreatedOnce ==
  /\ [](/\ DOMAIN buckets \subseteq {Host}
        /\ (started = 0 /\ responses = 0) => DOMAIN buckets = {})
  /\ [][/\ Host \in DOMAIN buckets
             => /\ Host \in DOMAIN buckets'
                /\ buckets'[Host].capacity = buckets[Host].capacity
                /\ started' # started => buckets' = buckets
                /\ (responses' # responses
                      /\ buckets[Host].last_refill = clock)
                     => buckets'[Host].tokens = buckets[Host].tokens
        /\ (Host \notin DOMAIN buckets /\ Host \in DOMAIN buckets')
             => /\ buckets'[Host].capacity = Burst
                /\ buckets'[Host].tokens = RInt(Burst)
                /\ buckets'[Host].last_refill = clock
                /\ stats'.adaptive_adjustments = stats.adaptive_adjustments
                     => buckets'[Host].rate = RInt(SteadyRate)]_vars

\* Both callers have started, one was granted a token of the bucket the
\* other then obtained, and a response was handled on it as well.
C33_Witness ==
  /\ \A c \in FirstUseCallers : pc[c] # "idle"
  /\ Host \in DOMAIN buckets
  /\ RLt(buckets[Host].tokens, RInt(buckets[Host].capacity))
  /\ responses > 0

\* C34: every step that changes the bucket's tokens, last_refill or rate is
\* taken by the thread that holds the bucket's lock, so the rate does not
\* change under a thread that is inside consume or peek.
C34_BucketWritesUnderLock ==
  [][racing'.bucket # racing.bucket
       => /\ racing.holder # 0
          /\ racing'.actor = racing.holder]_vars

\* The sum of the per-decision counts of the recorder's statistics.
RECURSIVE DecisionTotal(_)
DecisionTotal(ds) ==
  IF ds = {} THEN 0
  ELSE LET d == CHOOSE x \in ds : TRUE
       IN  recorder.decisions_by_type[d] + DecisionTotal(ds \ {d})

\* Every recording thread has finished its MaxEvents calls of record.
AllRecorded ==
  \A t \in RecThreads : recorder.done[t] = MaxEvents /\ recorder.pc[t] = "idle"

\* C35: once T threads have each finished recording K events, get_events
\* has T*K entries, total_requests is T*K and the per-decision counts sum to
\* T*K; and at any time the events of one thread appear in get_events in
\* the order the thread recorded them.
C35_NoEventLost ==
  /\ AllRecorded
       => /\ Len(GetEvents) = NumRecorders * MaxEvents
          /\ recorder.total_requests = NumRecorders * MaxEvents
          /\ DecisionTotal(RecDecisions) = NumRecorders * MaxEvents
  /\ \A i, j \in DOMAIN GetEvents :
       (i < j /\ GetEvents[i].thread = GetEvents[j].thread)
         => GetEvents[i].seq < GetEvents[j].seq

\* All threads are done and their events are interleaved in the list.
C35_Witness ==
  /\ AllRecorded
  /\ \E i \in DOMAIN GetEvents :
       /\ i + 2 \in DOMAIN GetEvents
       /\ GetEvents[i].thread = GetEvents[i + 2].thread
       /\ GetEvents[i].thread # GetEvents[i + 1].thread

\* C36: with threads using acquire and tasks using acquire_async on the same
\* limiter, the callers inside an acquire scope, both modes together, are
\* never more than max_concurrency.
C36_CeilingAcrossModes ==
  Cardinality(Inside(TRUE) \cup Inside(FALSE)) <= MaxConcurrency

\* C37: every acquire call is eventually granted once the clock keeps
\* advancing, whatever responses were handled. Stated on finite runs: a
\* caller that waits for a token always has a grant ahead of it, that is,
\* the bucket holds a token or refills at a positive rate.
C37_GrantAhead ==
  \A c \in Callers :
    pc[c] \in {"consume", "until", "sleep"}
      => \/ RLe(RInt(1), TheBucket.tokens)
         \/ RLt(Zero, TheBucket.rate)

\* C38: when a response replaces the bucket's rate (both rates positive),
\* the tokens credited for the time since the last refill are those of a
\* refill at the rate in force until then: the new rate applies only to
\* time that elapses afterwards.
C38_RateChangeNotRetroactive ==
  [][(/\ Host \in DOMAIN buckets
      /\ Host \in DOMAIN buckets'
      /\ buckets'[Host].rate # buckets[Host].rate
      /\ RLt(Zero, buckets[Host].rate)
      /\ RLt(Zero, buckets'[Host].rate))
       => buckets'[Host].tokens = Refill(buckets[Host], clock).tokens]_vars

\* C39: requests_throttled never exceeds requests_total, for any sequence
\* of acquire and handle_response_headers calls (no reset_stats is made).
C39_ThrottledWithinTotal ==
  stats.requests_throttled <= stats.requests_total

\* Thread t waits: for a lock another thread holds, or at the gate with no
\* permit free.
LockBlocked(t) ==
  \/ /\ locking.todo[t] # <<>>
     /\ Head(locking.todo[t])[1] = "lock"
     /\ locking.held[Head(locking.todo[t])[2]] # 0
  \/ /\ locking.phase[t] = "gate"
     /\ locking.todo[t] = <<>>
     /\ locking.permits = 0

\* The locks thread t holds.
LocksHeld(t) == {n \in LockNames : locking.held[n] = t}

\* C40: while some caller has not left its scope, some caller can take a
\* step: never is every unfinished caller blocked on a lock or on the gate.
\* The locks are taken in one order: a thread takes a second lock only for
\* the clock while holding the bucket-map lock or the bucket lock, and takes
\* none while holding the clock lock, the stats lock or the events lock; and
\* a caller that waits at the gate waits for a permit that a caller inside
\* the scope holds.
C40_NoDeadlock ==
  /\ (\E t \in LockThreads : locking.phase[t] # "done")
       => \E t \in LockThreads :
            locking.phase[t] # "done" /\ ~LockBlocked(t)
  /\ \A t \in LockThreads :
       /\ Cardinality(LocksHeld(t)) <= 2
       /\ Cardinality(LocksHeld(t)) = 2
            => /\ "clock" \in LocksHeld(t)
               /\ LocksHeld(t) \cap {"bucket_map", "bucket"} # {}
       /\ (LocksHeld(t) \cap {"clock", "stats", "events"} # {}
             /\ locking.todo[t] # <<>>)
            => Head(locking.todo[t])[1] = "unlock"
       /\ (locking.phase[t] = "gate" /\ locking.todo[t] = <<>>
             /\ locking.permits = 0)
            => \E u \in LockThreads :
                 locking.phase[u] \in {"consume", "until", "stats", "body",
                                       "leave"}

\* One caller waits at the gate with no permit free while another, inside
\* the scope, holds the clock lock inside the bucket's lock.
C40_Witness ==
  \E t, u \in LockThreads :
    /\ t # u
    /\ locking.phase[t] = "gate" /\ locking.todo[t] = <<>>
    /\ locking.permits = 0
    /\ LocksHeld(u) = {"bucket", "clock"}

====
